---- MODULE Spec2Model ----
(***************************************************************************)
(* Linear-chain CRF of language_prediction/crf.py and the FeatureSet of    *)
(* language_prediction/feature.py.                                         *)
(*                                                                         *)
(* Conventions of the model                                                *)
(*  - Python lists are TLA+ sequences; a Python index i is element i+1.    *)
(*  - Python dicts are functions; a lookup of a missing key is a KeyError. *)
(*    Keys and values that may be a str or an int carry their type, S(..)  *)
(*    or I(..), because a str key never equals an int key in Python.       *)
(*  - Strings that the code formats or parses are sequences of characters. *)
(*  - Floats are exact rationals <<numerator, denominator>>; exp is the    *)
(*    exponential to base 2 on integer scores (exp(0) = 1,                 *)
(*    exp(a+b) = exp(a)*exp(b), strictly increasing, never 0).             *)
(***************************************************************************)
EXTENDS Integers, Sequences, FiniteSets, TLC

VARIABLES
    feature_set,     \* FeatureSet instance (crf.feature_set), or None
    training_data,   \* LinearChainCRF.training_data
    label_dic,       \* LinearChainCRF.label_dic
    label_array,     \* LinearChainCRF.label_array
    num_labels,      \* LinearChainCRF.num_labels
    params,          \* LinearChainCRF.params
    model_file,      \* what joblib.dump wrote under model_filename, or None
    call,            \* the last call made on the instance and its outcome
    params_from,     \* the call that assigned params: "none", "train", "load"
    scanned,         \* the corpora given to FeatureSet.scan so far, in order
    fb,              \* the frame of a call of _forward_backward
    globals,         \* the module-level variables of crf.py
    runs             \* the calls of fmin_l_bfgs_b in progress

vars == <<feature_set, training_data, label_dic, label_array, num_labels,
          params, model_file, call, params_from, scanned, fb, globals, runs>>

\* An attribute that may be None holds None or Some(value).
None == <<>>
Some(v) == <<v>>
Val(opt) == opt[1]

\* The exception a call ended with; NoError when it returned.
NoError == "none"

----------------------------------------------------------------------------
(* Bounds of the model *)

MaxLen == 2          \* longest observation sequence scanned
MaxScans == 2        \* number of scan calls on one FeatureSet

----------------------------------------------------------------------------
(* Program constants *)

STARTING_LABEL == "*"
STARTING_LABEL_INDEX == 0

S(s) == <<"str", s>>
I(n) == <<"int", n>>

----------------------------------------------------------------------------
(* Inputs *)

Labels == {"A", "B"}

\* An observation is a 0/1 vector over the feature names.
Observations(names) == [1..Len(names) -> {0, 1}]

\* The (x, Y) pairs of a corpus: observation sequences of length 1..n
\* and their aligned label sequences.
DataLists(names, n) ==
    UNION {{<<x, Y>> : x \in [1..k -> Observations(names)], Y \in [1..k -> Labels]}
           : k \in 1..n}

----------------------------------------------------------------------------
(* feature.py: VectorRepresentationInput and FeatureSet *)

RECURSIVE ActiveNames(_, _, _)
ActiveNames(names, obs, i) ==
    IF i > Len(obs) THEN <<>>
    ELSE (IF obs[i] = 1 THEN <<names[i]>> ELSE <<>>)
         \o ActiveNames(names, obs, i + 1)

\* self.feature_func(x, t), that is VectorRepresentationInput.__call__: the
\* names of the features that are 1 in x[t], in order.
feature_func(fs, x, t) == ActiveNames(fs.features_names, x[t + 1], 1)

\* FeatureSet.__init__(VectorRepresentationInput, features_names)
NewFeatureSet(names) ==
    [features_names   |-> names,
     feature_dic      |-> <<>>,
     empirical_counts |-> <<>>,
     num_features     |-> 0,
     label_dic        |-> (S(STARTING_LABEL) :> I(STARTING_LABEL_INDEX)),
     label_array      |-> <<STARTING_LABEL>>]

\* Counter: counts[key] += 1
CounterInc(counts, key) ==
    IF key \in DOMAIN counts THEN [counts EXCEPT ![key] = @ + 1]
    ELSE counts @@ (key :> 1)

\* RegisterId without "num_features += 1".
RegisterId_NoIncrement(fs, f, tr) ==
    LET feature_id == fs.num_features
        old == IF f \in DOMAIN fs.feature_dic THEN fs.feature_dic[f] ELSE <<>>
        new == IF tr \in DOMAIN old THEN [old EXCEPT ![tr] = feature_id]
               ELSE old @@ (tr :> feature_id)
    IN [fs EXCEPT
          !.feature_dic = IF f \in DOMAIN fs.feature_dic
                          THEN [fs.feature_dic EXCEPT ![f] = new]
                          ELSE fs.feature_dic @@ (f :> new),
          !.empirical_counts = CounterInc(fs.empirical_counts, feature_id)]

\* feature_id = num_features; feature_dic[f][tr] = feature_id;
\* empirical_counts[feature_id] += 1; num_features += 1
RegisterId(fs, f, tr) ==
    LET feature_id == fs.num_features
        old == IF f \in DOMAIN fs.feature_dic THEN fs.feature_dic[f] ELSE <<>>
        new == IF tr \in DOMAIN old THEN [old EXCEPT ![tr] = feature_id]
               ELSE old @@ (tr :> feature_id)
    IN [fs EXCEPT
          !.feature_dic = IF f \in DOMAIN fs.feature_dic
                          THEN [fs.feature_dic EXCEPT ![f] = new]
                          ELSE fs.feature_dic @@ (f :> new),
          !.empirical_counts = CounterInc(fs.empirical_counts, feature_id),
          !.num_features = fs.num_features + 1]

\* empirical_counts[feature_dic[f][tr]] += 1
CountExisting(fs, f, tr) ==
    [fs EXCEPT !.empirical_counts =
         CounterInc(fs.empirical_counts, fs.feature_dic[f][tr])]

\* AddFeatureString that registers the bigram without looking it up first.
AddFeatureString_AlwaysNew(fs, f, prev_y, y) ==
    LET fs0 == IF f \in DOMAIN fs.feature_dic THEN fs
               ELSE [fs EXCEPT !.feature_dic = fs.feature_dic @@ (f :> <<>>)]
        fs1 == RegisterId(fs0, f, <<prev_y, y>>)
    IN IF <<-1, y>> \in DOMAIN fs1.feature_dic[f]
       THEN CountExisting(fs1, f, <<-1, y>>)
       ELSE RegisterId(fs1, f, <<-1, y>>)

\* AddFeatureString that does not count a unigram that already has an id.
AddFeatureString_NoUnigramCount(fs, f, prev_y, y) ==
    IF f \in DOMAIN fs.feature_dic
    THEN LET fs1 == IF <<prev_y, y>> \in DOMAIN fs.feature_dic[f]
                    THEN CountExisting(fs, f, <<prev_y, y>>)
                    ELSE RegisterId(fs, f, <<prev_y, y>>)
         IN IF <<-1, y>> \in DOMAIN fs1.feature_dic[f]
            THEN fs1
            ELSE RegisterId(fs1, f, <<-1, y>>)
    ELSE LET fs0 == [fs EXCEPT !.feature_dic = fs.feature_dic @@ (f :> <<>>)]
         IN RegisterId(RegisterId(fs0, f, <<prev_y, y>>), f, <<-1, y>>)

\* The body of the loop of FeatureSet._add for one feature string.
AddFeatureString(fs, f, prev_y, y) ==
    IF f \in DOMAIN fs.feature_dic
    THEN LET fs1 == IF <<prev_y, y>> \in DOMAIN fs.feature_dic[f]
                    THEN CountExisting(fs, f, <<prev_y, y>>)
                    ELSE RegisterId(fs, f, <<prev_y, y>>)
         IN IF <<-1, y>> \in DOMAIN fs1.feature_dic[f]
            THEN CountExisting(fs1, f, <<-1, y>>)
            ELSE RegisterId(fs1, f, <<-1, y>>)
    ELSE LET fs0 == [fs EXCEPT !.feature_dic = fs.feature_dic @@ (f :> <<>>)]
         IN RegisterId(RegisterId(fs0, f, <<prev_y, y>>), f, <<-1, y>>)

RECURSIVE AddStrings(_, _, _, _, _)
AddStrings(fs, strings, i, prev_y, y) ==
    IF i > Len(strings) THEN fs
    ELSE AddStrings(AddFeatureString(fs, strings[i], prev_y, y),
                    strings, i + 1, prev_y, y)

\* FeatureSet._add(prev_y, y, x, t)
_add(fs, prev_y, y, x, t) == AddStrings(fs, feature_func(fs, x, t), 1, prev_y, y)

\* The inner loop of FeatureSet.scan over the time steps of one data_list.
RECURSIVE ScanSteps(_, _, _, _)
ScanSteps(fs, data_list, t, prev_y) ==
    IF t >= Len(data_list[1]) THEN fs
    ELSE LET label == data_list[2][t + 1]
             known == S(label) \in DOMAIN fs.label_dic
             len_y == IF known THEN fs.label_dic[S(label)][2]
                      ELSE Cardinality(DOMAIN fs.label_dic)
             fs1   == IF known THEN fs
                      ELSE [fs EXCEPT
                              !.label_dic = @ @@ (S(label) :> I(len_y)),
                              !.label_array = Append(@, label)]
         IN ScanSteps(_add(fs1, prev_y, len_y, data_list[1], t),
                      data_list, t + 1, len_y)

RECURSIVE ScanData(_, _, _)
ScanData(fs, data, i) ==
    IF i > Len(data) THEN fs
    ELSE ScanData(ScanSteps(fs, data[i], 0, STARTING_LABEL_INDEX), data, i + 1)

\* FeatureSet.scan(data)
scan(fs, data) == ScanData(fs, data, 1)

----------------------------------------------------------------------------
(* Specification SpecScan: a FeatureSet and the scan calls made on it *)

Range(seq) == {seq[i] : i \in 1..Len(seq)}

\* Corpora handed to scan: lists of one (x, Y) pair.
ScanNames == <<"f1", "f2">>
ScanCorpora == {<<d>> : d \in DataLists(ScanNames, MaxLen)}

NoCall == [op |-> "none"]

\* No call of _forward_backward is in progress.
NoFrame == [pc |-> "none"]

\* The module-level variables of crf.py when the module has been imported.
InitialGlobals ==
    [ITERATION_NUM |-> 0, SUB_ITERATION_NUM |-> 0, TOTAL_SUB_ITERATIONS |-> 0,
     GRADIENT |-> None]

InitScan ==
    /\ feature_set = Some(NewFeatureSet(ScanNames))
    /\ scanned = <<>>
    /\ fb = NoFrame
    /\ globals = InitialGlobals
    /\ runs = <<>>
    /\ call = NoCall
    /\ params_from = "none"
    /\ training_data = None
    /\ label_dic = None
    /\ label_array = None
    /\ num_labels = None
    /\ params = None
    /\ model_file = None

\* feature_set.scan(data)
Scan(data) ==
    /\ Len(scanned) < MaxScans
    /\ feature_set' = Some(scan(Val(feature_set), data))
    /\ scanned' = Append(scanned, data)
    /\ call' = [op |-> "scan"]
    /\ UNCHANGED <<training_data, label_dic, label_array, num_labels,
                   params, model_file, params_from, fb, globals, runs>>

NextScan == \E data \in ScanCorpora : Scan(data)

SpecScan == InitScan /\ [][NextScan]_vars

----------------------------------------------------------------------------
(* Feature ids *)

\* The (feature string, transition) pairs of a FeatureSet.
Pairs(fs) ==
    UNION {{<<f, tr>> : tr \in DOMAIN fs.feature_dic[f]}
           : f \in DOMAIN fs.feature_dic}

IdOf(fs, pair) == fs.feature_dic[pair[1]][pair[2]]

Count(fs, id) ==
    IF id \in DOMAIN fs.empirical_counts THEN fs.empirical_counts[id] ELSE 0

DenseIds(fs) ==
    /\ \A p, q \in Pairs(fs) : IdOf(fs, p) = IdOf(fs, q) => p = q
    /\ {IdOf(fs, p) : p \in Pairs(fs)} = 0..(fs.num_features - 1)

IdsKept(old, new) ==
    \A p \in Pairs(old) : p \in Pairs(new) /\ IdOf(new, p) = IdOf(old, p)

\* C8: after any sequence of scan calls the ids of all (feature string,
\* (prev_y, y)) pairs are pairwise distinct and are exactly
\* 0..num_features-1, and a scan never changes or removes the id of a pair
\* that already has one.
C8_IdsDenseAndStable ==
    /\ [](DenseIds(Val(feature_set)))
    /\ [][IdsKept(Val(feature_set), Val(feature_set'))]_vars

\* Two scans have run and the second one met pairs that already had ids
\* and pairs that had none.
C8_Witness ==
    /\ Len(scanned) = 2
    /\ LET first == scan(NewFeatureSet(ScanNames), scanned[1])
       IN /\ first.num_features > 0
          /\ Val(feature_set).num_features > first.num_features
          /\ \E id \in DOMAIN first.empirical_counts :
                 Count(Val(feature_set), id) > Count(first, id)

\* The (feature string, transition) pairs that a scan of data realises in
\* a FeatureSet whose label dictionary already holds the labels of data.
RealisedPairs(fs, data) ==
    UNION {UNION {LET x == data[i][1]
                      Y == data[i][2]
                      y == fs.label_dic[S(Y[t + 1])][2]
                      prev_y == IF t = 0 THEN STARTING_LABEL_INDEX
                                ELSE fs.label_dic[S(Y[t])][2]
                  IN UNION {{<<f, <<prev_y, y>>>>, <<f, <<-1, y>>>>}
                            : f \in Range(feature_func(fs, x, t))}
                  : t \in 0..(Len(data[i][1]) - 1)}
           : i \in 1..Len(data)}

AllIds(fs) == 0..(fs.num_features - 1)

RescanEffect(old, new, data, before) ==
    /\ new.feature_dic = old.feature_dic
    /\ new.num_features = old.num_features
    /\ new.label_dic = old.label_dic
    /\ new.label_array = old.label_array
    /\ \A p \in RealisedPairs(old, data) :
           p \in Pairs(old) /\ Count(new, IdOf(old, p)) > Count(old, IdOf(old, p))
    /\ Range(before) = {data} =>
           \A id \in AllIds(old) : Count(new, id) > Count(old, id)
    /\ before = <<data>> =>
           \A id \in AllIds(old) : Count(new, id) = 2 * Count(old, id)

\* C9: a scan of a corpus that the FeatureSet has scanned before creates no
\* feature id and no label (feature_dic, num_features and the label
\* dictionary are unchanged) and strictly increases the empirical count of
\* every id the corpus realises; these are all the ids when the FeatureSet
\* was built from that corpus, and the counts double on the second scan.
C9_RescanKeepsIdsRaisesCounts ==
    [][\A data \in ScanCorpora :
          (scanned' = Append(scanned, data) /\ data \in Range(scanned))
              => RescanEffect(Val(feature_set), Val(feature_set'), data, scanned)]_vars

\* The same corpus, one that has active features, was scanned twice.
C9_Witness ==
    /\ Len(scanned) = 2
    /\ scanned[1] = scanned[2]
    /\ Val(feature_set).num_features >= 4
    /\ \E id \in AllIds(Val(feature_set)) : Count(Val(feature_set), id) >= 4

RECURSIVE SumCounts(_, _)
SumCounts(fs, ids) ==
    IF ids = {} THEN 0
    ELSE LET id == CHOOSE i \in ids : TRUE
         IN Count(fs, id) + SumCounts(fs, ids \ {id})

\* The ids of the bigram features (f, (p, y)) over all p.
BigramIds(fs, f, y) ==
    {fs.feature_dic[f][tr] :
        tr \in {u \in DOMAIN fs.feature_dic[f] : u[1] # -1 /\ u[2] = y}}

UnigramBookkeeping(fs) ==
    \A f \in DOMAIN fs.feature_dic :
        \A tr \in DOMAIN fs.feature_dic[f] :
            tr[1] # -1 =>
                /\ <<-1, tr[2]>> \in DOMAIN fs.feature_dic[f]
                /\ Count(fs, fs.feature_dic[f][<<-1, tr[2]>>])
                       = SumCounts(fs, BigramIds(fs, f, tr[2]))

\* C10: after any sequence of scan calls, whenever a bigram id (f, (p, y))
\* exists the unigram id (f, (-1, y)) exists and its empirical count is the
\* sum over p of the empirical counts of the bigram ids (f, (p, y)).
C10_UnigramCountIsSumOfBigrams == UnigramBookkeeping(Val(feature_set))

\* Some feature string was seen with the same label after two different
\* previous labels, and one of these bigrams more than once.
C10_Witness ==
    \E f \in DOMAIN Val(feature_set).feature_dic :
        \E tr \in DOMAIN Val(feature_set).feature_dic[f] :
            /\ tr[1] # -1
            /\ Cardinality(BigramIds(Val(feature_set), f, tr[2])) >= 2
            /\ Count(Val(feature_set), Val(feature_set).feature_dic[f][tr]) >= 2

----------------------------------------------------------------------------
(* Numbers: exact rationals <<numerator, denominator>>, denominator > 0 *)

\* "CHOOSE out_x \in {B(x) : x \in {E}} : TRUE" below is B(x) with x
\* standing for the value of E, computed once.

RECURSIVE GCD(_, _)
GCD(a, b) == IF b = 0 THEN a ELSE (CHOOSE out_r \in {GCD(b, r) : r \in {a % b}} : TRUE)

Rat(n, d) ==
    (LET Of_p(p) ==
        IF p[1] = 0 THEN <<0, 1>>
        ELSE (CHOOSE out_g \in {<<p[1] \div g, p[2] \div g>> : g \in {GCD(p[1], p[2])}} : TRUE)
     IN CHOOSE out_p \in {Of_p(p) : p \in {<<n, d>>}} : TRUE)

Zero == Rat(0, 1)
One == Rat(1, 1)

RMul(a, b) == (CHOOSE out_p \in {Rat(p[1][1] * p[2][1], p[1][2] * p[2][2]) : p \in {<<a, b>>}} : TRUE)
RAdd(a, b) ==
    (LET Of_p(p) ==
        Rat(p[1][1] * p[2][2] + p[2][1] * p[1][2], p[1][2] * p[2][2])
     IN CHOOSE out_p \in {Of_p(p) : p \in {<<a, b>>}} : TRUE)
RDiv(a, b) == (CHOOSE out_p \in {Rat(p[1][1] * p[2][2], p[1][2] * p[2][1]) : p \in {<<a, b>>}} : TRUE)
RGt(a, b) == a[1] * b[2] > b[1] * a[2]

\* -float('inf')
NegInf == "-inf"
Greater(value, max_value) == max_value = NegInf \/ RGt(value, max_value)

\* np.exp on an integer score, to base 2.
exp(score) == IF score >= 0 THEN Rat(2 ^ score, 1) ELSE Rat(1, 2 ^ (0 - score))

----------------------------------------------------------------------------
(* feature.py: calc_inner_products, get_feature_list *)

\* Python indexing of a list: a negative index counts from the end.
PyIndex(i, len) == IF i < 0 THEN i + len ELSE i
At(list, i) == list[PyIndex(i, Len(list)) + 1]

\* The transitions under the strings of a list that feature_dic knows.
KnownTransitions(fs, strings) ==
    UNION {DOMAIN fs.feature_dic[f] : f \in Range(strings) \cap DOMAIN fs.feature_dic}

RECURSIVE InnerProduct(_, _, _, _, _)
InnerProduct(fs, prms, strings, i, tr) ==
    IF i > Len(strings) THEN 0
    ELSE (IF /\ strings[i] \in DOMAIN fs.feature_dic
             /\ tr \in DOMAIN fs.feature_dic[strings[i]]
          THEN prms[fs.feature_dic[strings[i]][tr] + 1]
          ELSE 0)
         + InnerProduct(fs, prms, strings, i + 1, tr)

\* The strings of a list before the first one feature_dic does not know.
RECURSIVE BeforeUnknown(_, _, _)
BeforeUnknown(fs, strings, i) ==
    IF i > Len(strings) \/ strings[i] \notin DOMAIN fs.feature_dic
    THEN SubSeq(strings, 1, i - 1)
    ELSE BeforeUnknown(fs, strings, i + 1)

\* calc_inner_products with the try around the whole loop: the first
\* unknown string ends it.
calc_inner_products_StopAtUnknown(fs, prms, x, t) ==
    LET strings == BeforeUnknown(fs, feature_func(fs, x, t), 1)
    IN [tr \in KnownTransitions(fs, strings) |->
          InnerProduct(fs, prms, strings, 1, tr)]

\* FeatureSet.calc_inner_products(params, x, t), as a dictionary
\* (prev_y, y) -> score.
calc_inner_products(fs, prms, x, t) ==
    LET strings == feature_func(fs, x, t)
    IN [tr \in KnownTransitions(fs, strings) |->
          InnerProduct(fs, prms, strings, 1, tr)]

\* FeatureSet.get_feature_list(x, t) looks every string up without a
\* guard: a string that feature_dic does not know is a KeyError.
get_feature_list_raises(fs, x, t) ==
    ~(Range(feature_func(fs, x, t)) \subseteq DOMAIN fs.feature_dic)

\* FeatureSet.get_feature_list(x, t), as a dictionary
\* (prev_y, y) -> set of feature ids.
get_feature_list(fs, x, t) ==
    LET strings == feature_func(fs, x, t)
    IN [tr \in KnownTransitions(fs, strings) |->
          {fs.feature_dic[f][tr] :
              f \in {g \in Range(strings) \cap DOMAIN fs.feature_dic :
                        tr \in DOMAIN fs.feature_dic[g]}}]

----------------------------------------------------------------------------
(* crf.py: _generate_potential_table *)

LabelIds(n) == 0..(n - 1)

RECURSIVE SumParams(_, _)
SumParams(prms, feature_ids) ==
    IF feature_ids = {} THEN 0
    ELSE LET fid == CHOOSE i \in feature_ids : TRUE
         IN prms[fid + 1] + SumParams(prms, feature_ids \ {fid})

\* The score array before np.exp: a unigram score is added to the whole
\* column y, a bigram score to the cell (prev_y, y).
ScoreTable(n, scores) ==
    [cell \in LabelIds(n) \X LabelIds(n) |->
        (IF <<-1, cell[2]>> \in DOMAIN scores THEN scores[<<-1, cell[2]>>] ELSE 0)
        + (IF cell \in DOMAIN scores THEN scores[cell] ELSE 0)]

\* PotentialOf that zeroes the starting row but not the starting column
\* at t > 0.
PotentialOf_RowOnly(n, scores, t) ==
    LET table == ScoreTable(n, scores)
    IN [cell \in LabelIds(n) \X LabelIds(n) |->
          IF t = 0
          THEN (IF cell[1] >= STARTING_LABEL_INDEX + 1 THEN Zero
                ELSE exp(table[cell]))
          ELSE (IF cell[1] = STARTING_LABEL_INDEX THEN Zero
                ELSE exp(table[cell]))]

\* PotentialOf that zeroes the scores and then exponentiates.
PotentialOf_ZeroBeforeExp(n, scores, t) ==
    LET table == ScoreTable(n, scores)
    IN [cell \in LabelIds(n) \X LabelIds(n) |->
          IF t = 0
          THEN (IF cell[1] >= STARTING_LABEL_INDEX + 1 THEN exp(0)
                ELSE exp(table[cell]))
          ELSE (IF cell[2] = STARTING_LABEL_INDEX \/ cell[1] = STARTING_LABEL_INDEX
                THEN exp(0)
                ELSE exp(table[cell]))]

\* table = np.exp(table), then the rows after the starting label (t = 0)
\* or the row and the column of the starting label (t > 0) are set to 0.
PotentialOf(n, scores, t) ==
    LET table == ScoreTable(n, scores)
    IN [cell \in LabelIds(n) \X LabelIds(n) |->
          IF t = 0
          THEN (IF cell[1] >= STARTING_LABEL_INDEX + 1 THEN Zero
                ELSE exp(table[cell]))
          ELSE (IF cell[2] = STARTING_LABEL_INDEX \/ cell[1] = STARTING_LABEL_INDEX
                THEN Zero
                ELSE exp(table[cell]))]

\* _generate_potential_table(params, num_labels, feature_set, x,
\* inference): with inference, x is the observation sequence; without,
\* x[t] is the feature list of get_feature_list.
_generate_potential_table(prms, n, fs, x, inference) ==
    [i \in 1..Len(x) |->
        PotentialOf(n,
            IF inference THEN calc_inner_products(fs, prms, x, i - 1)
            ELSE [tr \in DOMAIN x[i] |-> SumParams(prms, x[i][tr])],
            i - 1)]

----------------------------------------------------------------------------
(* crf.py: the decoders.  max_table and argmax_table are lists of rows,   *)
(* one row per time step, a row being a function of the label id.         *)

ZeroRows(T, n, zero) == [i \in 1..T |-> [l \in LabelIds(n) |-> zero]]

SetCell(table, t, l, v) == [table EXCEPT ![t + 1][l] = v]

\* np.argmax of a row: the first index that holds the maximum.
ArgMax(row, n) ==
    CHOOSE i \in LabelIds(n) :
        /\ \A j \in LabelIds(n) : ~RGt(row[j], row[i])
        /\ \A j \in LabelIds(n) : j < i => RGt(row[i], row[j])

\* BestPrev that looks at the first previous label only.
BestPrev_FirstPrevOnly(prev_row, table, label_id, prev_label_id, n, max_value, max_label_id) ==
    <<RMul(prev_row[1], table[<<1, label_id>>]), 1>>

\* The loop over prev_label_id of viterbi: <<max_value, max_label_id>>.
RECURSIVE BestPrev(_, _, _, _, _, _, _)
BestPrev(prev_row, table, label_id, prev_label_id, n, max_value, max_label_id) ==
    IF prev_label_id >= n THEN <<max_value, max_label_id>>
    ELSE LET value == RMul(prev_row[prev_label_id], table[<<prev_label_id, label_id>>])
         IN IF Greater(value, max_value)
            THEN BestPrev(prev_row, table, label_id, prev_label_id + 1, n,
                          value, prev_label_id)
            ELSE BestPrev(prev_row, table, label_id, prev_label_id + 1, n,
                          max_value, max_label_id)

\* The loops over t and label_id of viterbi: <<max_table, argmax_table>>.
RECURSIVE ViterbiFill(_, _, _, _, _, _)
ViterbiFill(max_table, argmax_table, t, label_id, n, potential_table) ==
    IF t >= Len(max_table) THEN <<max_table, argmax_table>>
    ELSE IF label_id >= n
         THEN ViterbiFill(max_table, argmax_table, t + 1, 1, n, potential_table)
         ELSE LET best == BestPrev(max_table[t], potential_table[t + 1], label_id,
                                   1, n, NegInf, None)
              IN ViterbiFill(SetCell(max_table, t, label_id, best[1]),
                             SetCell(argmax_table, t, label_id, best[2]),
                             t, label_id + 1, n, potential_table)

\* sequence.append(next_label) for t = time_length-1 .. 0.
RECURSIVE Backpointers(_, _, _)
Backpointers(argmax_table, t, next_label) ==
    IF t < 0 THEN <<>>
    ELSE <<argmax_table[t + 1][next_label]>>
         \o Backpointers(argmax_table, t - 1, argmax_table[t + 1][next_label])

Reverse(list) == [i \in 1..Len(list) |-> list[Len(list) + 1 - i]]

\* The tail of both decoders: trace the backpointers from the argmax of
\* the last row and translate sequence[::-1][1:] through label_dic.
TraceBack(max_table, argmax_table, n, ldic, indices) ==
    LET time_length == Len(max_table)
        next_label == ArgMax(max_table[time_length], n)
        sequence == <<next_label>>
                    \o Backpointers(argmax_table, time_length - 1, next_label)
        label_ids == Tail(Reverse(sequence))
    IN IF \A i \in 1..Len(label_ids) : I(label_ids[i]) \in DOMAIN ldic
       THEN [raised |-> NoError,
             value |-> [i \in 1..Len(label_ids) |-> ldic[I(label_ids[i])]],
             indices |-> indices \cup 0..(time_length - 1)]
       ELSE [raised |-> "KeyError", value |-> None,
             indices |-> indices \cup 0..(time_length - 1)]

\* LinearChainCRF.viterbi(x, potential_table)
viterbi(n, ldic, x, potential_table) ==
    LET time_length == Len(x)
        row0 == [l \in LabelIds(n) |->
                    potential_table[1][<<STARTING_LABEL_INDEX, l>>]]
        max_table0 == [ZeroRows(time_length, n, Zero) EXCEPT ![1] = row0]
        filled == ViterbiFill(max_table0, ZeroRows(time_length, n, 0), 1, 1, n,
                              potential_table)
    IN TraceBack(filled[1], filled[2], n, ldic,
                 {0} \cup UNION {{t - 1, t} : t \in 1..(time_length - 1)})

\* reverse_label_dict = {value: key for key, value in label_dic.items()}
ReverseDict(ldic) ==
    [v \in {ldic[k] : k \in DOMAIN ldic} |-> CHOOSE k \in DOMAIN ldic : ldic[k] = v]

\* PinHistory with the backpointer of y[t] set to y[t] instead of y[t-1].
RECURSIVE PinHistory_OwnLabel(_, _, _, _, _)
PinHistory_OwnLabel(max_table, argmax_table, t, y, rev) ==
    IF t >= Len(max_table) - 1 THEN <<max_table, argmax_table>>
    ELSE PinHistory_OwnLabel(SetCell(max_table, t, rev[S(At(y, t))][2], One),
                             SetCell(argmax_table, t, rev[S(At(y, t))][2],
                                     rev[S(At(y, t))][2]),
                             t + 1, y, rev)

\* The loop "for t in range(1, time_length-1)" of viterbi_fix_history.
RECURSIVE PinHistory(_, _, _, _, _)
PinHistory(max_table, argmax_table, t, y, rev) ==
    IF t >= Len(max_table) - 1 THEN <<max_table, argmax_table>>
    ELSE PinHistory(SetCell(max_table, t, rev[S(At(y, t))][2], One),
                    SetCell(argmax_table, t, rev[S(At(y, t))][2],
                            rev[S(At(y, t - 1))][2]),
                    t + 1, y, rev)

\* LastStep conditioned on y[0] instead of y[last_t-1].
RECURSIVE LastStep_FirstLabel(_, _, _, _, _, _, _)
LastStep_FirstLabel(max_table, argmax_table, label_id, n, potential_table, y, rev) ==
    IF label_id >= n THEN <<max_table, argmax_table>>
    ELSE LET last_t == Len(max_table) - 1
             prev_label_id == rev[S(At(y, 0))][2]
             value == RMul(At(max_table, last_t - 1)[prev_label_id],
                           potential_table[last_t + 1][<<prev_label_id, label_id>>])
         IN LastStep_FirstLabel(SetCell(max_table, last_t, label_id, value),
                                SetCell(argmax_table, last_t, label_id, prev_label_id),
                                label_id + 1, n, potential_table, y, rev)

\* The loop "for label_id in range(1, self.num_labels)" of
\* viterbi_fix_history; value > -inf holds for every value.
RECURSIVE LastStep(_, _, _, _, _, _, _)
LastStep(max_table, argmax_table, label_id, n, potential_table, y, rev) ==
    IF label_id >= n THEN <<max_table, argmax_table>>
    ELSE LET last_t == Len(max_table) - 1
             prev_label_id == rev[S(At(y, last_t - 1))][2]
             value == RMul(At(max_table, last_t - 1)[prev_label_id],
                           potential_table[last_t + 1][<<prev_label_id, label_id>>])
         IN LastStep(SetCell(max_table, last_t, label_id, value),
                     SetCell(argmax_table, last_t, label_id, prev_label_id),
                     label_id + 1, n, potential_table, y, rev)

\* The indices at which viterbi_fix_history subscripts y: y[0], y[t] and
\* y[t-1] in the history loop, y[last_t-1] in the last step.
YIndices(time_length, n) ==
    {0} \cup UNION {{t, t - 1} : t \in 1..(time_length - 2)}
        \cup (IF n > 1 THEN {time_length - 2} ELSE {})

\* The indices at which viterbi_fix_history subscripts y, max_table and
\* potential_table before the backtrace.
FixHistoryIndices(time_length, n) ==
    YIndices(time_length, n) \cup (IF n > 1 THEN {time_length - 1} ELSE {})

\* LinearChainCRF.viterbi_fix_history(x, potential_table, y)
viterbi_fix_history(n, ldic, x, potential_table, y) ==
    LET time_length == Len(x)
        rev == ReverseDict(ldic)
        indices == FixHistoryIndices(time_length, n)
    IN IF \E i \in YIndices(time_length, n) : S(At(y, i)) \notin DOMAIN rev
       THEN [raised |-> "KeyError", value |-> None, indices |-> indices]
       ELSE LET max_table0 == SetCell(ZeroRows(time_length, n, Zero), 0,
                                      rev[S(At(y, 0))][2], One)
                pinned == PinHistory(max_table0, ZeroRows(time_length, n, 0),
                                     1, y, rev)
                filled == LastStep(pinned[1], pinned[2], 1, n,
                                   potential_table, y, rev)
            IN TraceBack(filled[1], filled[2], n, ldic, indices)

\* LinearChainCRF.inference(x, y, predict_only_last).  Without params and
\* num_labels, np.zeros((None, None)) is a TypeError.
inference(self, x, y, predict_only_last) ==
    IF self.params = None
    THEN [raised |-> "TypeError", value |-> None, indices |-> {}]
    ELSE LET n == Val(self.num_labels)
             ldic == Val(self.label_dic)
             potential_table ==
                 _generate_potential_table(Val(self.params), n,
                                           Val(self.feature_set), x, TRUE)
         IN IF predict_only_last
            THEN viterbi_fix_history(n, ldic, x, potential_table, y)
            ELSE viterbi(n, ldic, x, potential_table)

\* The number of t in range(len(y)) with y[t] == y_prime[t].
RECURSIVE Matches(_, _, _)
Matches(y, y_prime, t) ==
    IF t >= Len(y) THEN 0
    ELSE (IF S(At(y, t)) = At(y_prime, t) THEN 1 ELSE 0) + Matches(y, y_prime, t + 1)

\* The loop over test_data of LinearChainCRF.test.
RECURSIVE TestLoop(_, _, _, _, _, _)
TestLoop(self, test_data, i, predict_only_last, correct_count, total_count) ==
    IF i > Len(test_data)
    THEN IF total_count = 0
         THEN [raised |-> "ZeroDivisionError", value |-> None, read |-> TRUE]
         ELSE [raised |-> NoError, value |-> <<correct_count, total_count>>,
               read |-> TRUE]
    ELSE LET x == test_data[i][1]
             y == test_data[i][2]
             y_prime == inference(self, x, y, predict_only_last)
         IN IF y_prime.raised # NoError
            THEN [raised |-> y_prime.raised, value |-> None, read |-> TRUE]
            ELSE IF predict_only_last
                 THEN TestLoop(self, test_data, i + 1, predict_only_last,
                        correct_count
                          + (IF S(At(y, Len(y) - 1)) = At(y_prime.value, Len(y) - 1)
                             THEN 1 ELSE 0),
                        total_count + 1)
                 ELSE TestLoop(self, test_data, i + 1, predict_only_last,
                        correct_count + Matches(y, y_prime.value, 0),
                        total_count + Len(y))

\* test without the guard on self.params.
test_Unguarded(self, test_data, predict_only_last) ==
    TestLoop(self, test_data, 1, predict_only_last, 0, 0)

\* LinearChainCRF.test(test_corpus_filename, predict_only_last)
test(self, test_data, predict_only_last) ==
    IF self.params = None
    THEN [raised |-> "BaseException", value |-> None, read |-> FALSE]
    ELSE TestLoop(self, test_data, 1, predict_only_last, 0, 0)

----------------------------------------------------------------------------
(* feature.py: serialize_feature_dic, deserialize_feature_dic, load *)

Digit == <<"0", "1", "2", "3", "4", "5", "6", "7", "8", "9">>

RECURSIVE NatToStr(_)
NatToStr(n) ==
    IF n < 10 THEN <<Digit[n + 1]>>
    ELSE NatToStr(n \div 10) \o <<Digit[(n % 10) + 1]>>

\* '%d' that drops the sign.
IntToStr_Unsigned(n) == IF n < 0 THEN NatToStr(0 - n) ELSE NatToStr(n)

\* '%d' % n
IntToStr(n) == IF n < 0 THEN <<"-">> \o NatToStr(0 - n) ELSE NatToStr(n)

\* '%d_%d' % (prev_y, y)
TransitionString(tr) == IntToStr(tr[1]) \o <<"_">> \o IntToStr(tr[2])

\* str.split('_')
RECURSIVE Split(_, _, _)
Split(str, i, part) ==
    IF i > Len(str) THEN <<part>>
    ELSE IF str[i] = "_" THEN <<part>> \o Split(str, i + 1, <<>>)
         ELSE Split(str, i + 1, Append(part, str[i]))

IsDigits(str) ==
    Len(str) >= 1 /\ \A i \in 1..Len(str) : \E d \in 1..10 : Digit[d] = str[i]

RECURSIVE DigitsToNat(_, _, _)
DigitsToNat(str, i, acc) ==
    IF i > Len(str) THEN acc
    ELSE DigitsToNat(str, i + 1,
                     10 * acc + ((CHOOSE d \in 1..10 : Digit[d] = str[i]) - 1))

\* int(str) accepts an optional sign followed by digits.
IsInt(str) ==
    /\ Len(str) >= 1
    /\ IF str[1] \in {"-", "+"} THEN IsDigits(Tail(str)) ELSE IsDigits(str)

StrToInt(str) ==
    IF str[1] = "-" THEN 0 - DigitsToNat(Tail(str), 1, 0)
    ELSE IF str[1] = "+" THEN DigitsToNat(Tail(str), 1, 0)
    ELSE DigitsToNat(str, 1, 0)

\* prev_y, y = transition_string.split('_'); (int(prev_y), int(y))
WellFormed(transition_string) ==
    LET parts == Split(transition_string, 1, <<>>)
    IN Len(parts) = 2 /\ IsInt(parts[1]) /\ IsInt(parts[2])

ParseTransition(transition_string) ==
    LET parts == Split(transition_string, 1, <<>>)
    IN <<StrToInt(parts[1]), StrToInt(parts[2])>>

\* FeatureSet.serialize_feature_dic()
serialize_feature_dic(fs) ==
    [f \in DOMAIN fs.feature_dic |->
        [k \in {TransitionString(tr) : tr \in DOMAIN fs.feature_dic[f]} |->
            fs.feature_dic[f][CHOOSE tr \in DOMAIN fs.feature_dic[f] :
                                  TransitionString(tr) = k]]]

\* FeatureSet.deserialize_feature_dic(serialized) raises the ValueError of
\* the unpacking or of int() on a key that is not '<int>_<int>'.
deserialize_raises(serialized) ==
    \E f \in DOMAIN serialized : \E k \in DOMAIN serialized[f] : ~WellFormed(k)

\* FeatureSet.deserialize_feature_dic(serialized)
deserialize_feature_dic(serialized) ==
    [f \in DOMAIN serialized |->
        [tr \in {ParseTransition(k) : k \in DOMAIN serialized[f]} |->
            serialized[f][CHOOSE k \in DOMAIN serialized[f] :
                              ParseTransition(k) = tr]]]

\* {label: i for label, i in enumerate(label_array)}: enumerate yields
\* (index, element), so the keys are the indices.
EnumerateDict(array) == [k \in {I(i - 1) : i \in 1..Len(array)} |-> S(array[k[2] + 1])]

\* load that skips the keys it cannot parse and installs the rest.
FeatureSetLoad_Partial(fs, model) ==
    LET good == [f \in DOMAIN model.feature_dic |->
                   [k \in {j \in DOMAIN model.feature_dic[f] : WellFormed(j)} |->
                       model.feature_dic[f][k]]]
    IN [fs EXCEPT !.num_features = model.num_features,
                  !.label_array = model.labels,
                  !.label_dic = EnumerateDict(model.labels),
                  !.feature_dic = deserialize_feature_dic(good),
                  !.empirical_counts = model.empirical_counts]

\* FeatureSet.load(feature_dic, num_features, label_array,
\* empirical_counts, observation_set) on a new FeatureSet; the assignments
\* before deserialize_feature_dic stay when it raises.
FeatureSetLoad(fs, model) ==
    LET fs1 == [fs EXCEPT !.num_features = model.num_features,
                          !.label_array = model.labels,
                          !.label_dic = EnumerateDict(model.labels)]
    IN IF deserialize_raises(model.feature_dic) THEN fs1
       ELSE [fs1 EXCEPT !.feature_dic = deserialize_feature_dic(model.feature_dic),
                        !.empirical_counts = model.empirical_counts]

\* The dictionary that LinearChainCRF.save_model dumps.
SavedModel(fs, prms) ==
    [feature_dic      |-> serialize_feature_dic(fs),
     num_features     |-> fs.num_features,
     labels           |-> fs.label_array,
     params           |-> prms,
     empirical_counts |-> fs.empirical_counts]

----------------------------------------------------------------------------
(* crf.py: what fmin_l_bfgs_b is given by _estimate_parameters, and what   *)
(* its calls of func and callback do to the module-level variables.        *)

\* training_feature_data[i] of _get_training_feature_data
FeatureData(fs, X) == [i \in 1..Len(X) |-> get_feature_list(fs, X, i - 1)]

\* The class attribute squared_sigma = 0.005.
squared_sigma == Rat(1, 200)

\* FeatureSet.get_empirical_counts: the counts as an array over the
\* feature ids (scan counts every id it creates at least once).
get_empirical_counts(fs) == [id \in 0..(fs.num_features - 1) |-> Count(fs, id)]

\* args of fmin_l_bfgs_b for an instance that scanned training_data into
\* the feature set fs.
OptimizerArgs(data, fs) ==
    [training_data         |-> data,
     feature_set           |-> fs,
     training_feature_data |-> [i \in 1..Len(data) |-> FeatureData(fs, data[i][1])],
     empirical_counts      |-> get_empirical_counts(fs),
     label_dic             |-> fs.label_dic,
     squared_sigma         |-> squared_sigma]

\* The end of _log_likelihood(prms, *args): GRADIENT = gradients and
\* SUB_ITERATION_NUM += 1.  GRADIENT keeps the arguments its array was
\* computed from; the entries of the array are GradientArray below.
Evaluated(g, prms, args) ==
    [g EXCEPT !.GRADIENT = Some([params |-> prms, args |-> args]),
              !.SUB_ITERATION_NUM = @ + 1]

\* _callback(params)
_callback(g) ==
    [g EXCEPT !.ITERATION_NUM = @ + 1,
              !.TOTAL_SUB_ITERATIONS = @ + g.SUB_ITERATION_NUM,
              !.SUB_ITERATION_NUM = 0]

MaxIterations == 1   \* most iterations of one call of fmin_l_bfgs_b

\* A call of fmin_l_bfgs_b(func=_log_likelihood, fprime=_gradient, x0,
\* args, callback=_callback) that has not called anything yet: its args,
\* the point of its latest evaluation of func, and how many evaluations
\* and iterations it has made.
NewRun(args) == [args |-> args, evaluated |-> None, evaluations |-> 0,
                 iterations |-> 0]

\* What one call of fmin_l_bfgs_b does besides returning: it evaluates
\* func at x0, then every iteration evaluates func and ends with callback;
\* the evaluations of the iterations are taken to be one each, at `last`
\* (only the latest evaluation is kept in GRADIENT).
RECURSIVE AfterIterations(_, _, _, _)
AfterIterations(g, iterations, last, args) ==
    IF iterations = 0 THEN g
    ELSE AfterIterations(_callback(Evaluated(g, last, args)),
                         iterations - 1, last, args)

AfterOptimizer(g, iterations, last, args) ==
    AfterIterations(
        Evaluated(g, [i \in 1..args.feature_set.num_features |-> 0], args),
        iterations, last, args)

----------------------------------------------------------------------------
(* Specification SpecCRF: one LinearChainCRF instance and the calls made   *)
(* on it: train, load, test, inference.                                    *)

MaxTrainLen == 1     \* longest sequence of a training corpus
MaxTestLen == 1      \* longest sequence of a test corpus
MaxWeight == 1       \* the optimizer returns weights in -MaxWeight..MaxWeight

CRFNames == <<"f1">>

\* Corpora read from corpus_filename by train and by test.
TrainCorpora == {<<d>> : d \in DataLists(CRFNames, MaxTrainLen)}
TestCorpora == {<<>>} \cup {<<d>> : d \in DataLists(CRFNames, MaxTestLen)}

\* The vectors fmin_l_bfgs_b may return for num_features parameters.
ParamVectors(num_features) == [1..num_features -> (0 - MaxWeight)..MaxWeight]

\* information['warnflag'] of fmin_l_bfgs_b: 0 converged, 1 too many
\* evaluations, 2 stopped for another reason (given in 'task').
WarnFlags == {0, 1, 2}

\* The attributes of the instance.
Self ==
    [feature_set |-> feature_set, label_dic |-> label_dic,
     label_array |-> label_array, num_labels |-> num_labels,
     params |-> params]

InitCRF ==
    /\ feature_set = None
    /\ training_data = None
    /\ label_dic = None
    /\ label_array = None
    /\ num_labels = None
    /\ params = None
    /\ model_file = None
    /\ call = NoCall
    /\ params_from = "none"
    /\ scanned = <<>>
    /\ fb = NoFrame
    /\ globals = InitialGlobals
    /\ runs = <<>>

\* train(corpus_filename, model_filename, features_filename): read the
\* corpus, scan it into a new FeatureSet, _estimate_parameters,
\* save_model.  _estimate_parameters prints information['warnflag'] and
\* information['task'] and returns nothing; train returns nothing.
\* The model follows an instance that is trained at most once.
Train(corpus, warnflag) ==
    LET fs == scan(NewFeatureSet(CRFNames), corpus)
    IN \E prms \in ParamVectors(fs.num_features) :
       \E iterations \in 0..MaxIterations :
       \E last \in IF iterations = 0 THEN {[i \in 1..fs.num_features |-> 0]}
                    ELSE ParamVectors(fs.num_features) :
        /\ globals' = AfterOptimizer(globals, iterations, last,
                                     OptimizerArgs(corpus, fs))
        /\ training_data = None
        /\ training_data' = Some(corpus)
        /\ feature_set' = Some(fs)
        /\ label_dic' = Some(fs.label_dic)
        /\ label_array' = Some(fs.label_array)
        /\ num_labels' = Some(Len(fs.label_array))
        /\ params' = Some(prms)
        /\ params_from' = "train"
        /\ model_file' = Some(SavedModel(fs, prms))
        /\ call' = [op |-> "train", raised |-> NoError, value |-> None,
                    information |-> [warnflag |-> warnflag],
                    printed_warning |-> warnflag # 0]
        /\ UNCHANGED <<scanned, fb, runs>>

\* The attributes that LinearChainCRF.load assigns from a model whose
\* feature dictionary deserializes.
Loaded(model) ==
    LET fs == FeatureSetLoad(NewFeatureSet(CRFNames), model)
    IN [feature_set |-> Some(fs),
        label_dic   |-> Some(fs.label_dic),
        label_array |-> Some(fs.label_array),
        num_labels  |-> Some(Len(fs.label_array)),
        params      |-> Some(model.params)]

\* load(model_filename, features_filename)
Load ==
    IF model_file = None
    THEN /\ call' = [op |-> "load", raised |-> "FileNotFoundError", value |-> None]
         /\ UNCHANGED <<feature_set, training_data, label_dic, label_array,
                        num_labels, params, model_file, params_from, scanned, fb,
                   globals, runs>>
    ELSE LET model == Val(model_file)
         IN IF deserialize_raises(model.feature_dic)
            THEN /\ feature_set' =
                        Some(FeatureSetLoad(NewFeatureSet(CRFNames), model))
                 /\ call' = [op |-> "load", raised |-> "ValueError", value |-> None]
                 /\ UNCHANGED <<training_data, label_dic, label_array, num_labels,
                                params, model_file, params_from, scanned, fb,
                   globals, runs>>
            ELSE LET loaded == Loaded(model) IN
                 /\ feature_set' = loaded.feature_set
                 /\ label_dic' = loaded.label_dic
                 /\ label_array' = loaded.label_array
                 /\ num_labels' = loaded.num_labels
                 /\ params' = loaded.params
                 /\ params_from' = "load"
                 /\ call' = [op |-> "load", raised |-> NoError, value |-> None]
                 /\ UNCHANGED <<training_data, model_file, scanned, fb,
                                globals, runs>>

\* test(test_corpus_filename, predict_only_last)
Test(test_data, predict_only_last) ==
    LET result == test(Self, test_data, predict_only_last)
    IN /\ call' = [op |-> "test", raised |-> result.raised, value |-> result.value,
                   read |-> result.read, data |-> test_data,
                   predict_only_last |-> predict_only_last]
       /\ UNCHANGED <<feature_set, training_data, label_dic, label_array,
                      num_labels, params, model_file, params_from, scanned, fb,
                   globals, runs>>

\* inference(x, y, predict_only_last)
Inference(x, y, predict_only_last) ==
    LET result == inference(Self, x, y, predict_only_last)
    IN /\ call' = [op |-> "inference", raised |-> result.raised,
                   value |-> result.value, indices |-> result.indices,
                   x |-> x, y |-> y, predict_only_last |-> predict_only_last]
       /\ UNCHANGED <<feature_set, training_data, label_dic, label_array,
                      num_labels, params, model_file, params_from, scanned, fb,
                   globals, runs>>

NextCRF ==
    \/ \E corpus \in TrainCorpora, warnflag \in WarnFlags : Train(corpus, warnflag)
    \/ Load
    \/ \E test_data \in TestCorpora, predict_only_last \in BOOLEAN :
           Test(test_data, predict_only_last)
    \/ \E d \in DataLists(CRFNames, MaxTestLen), predict_only_last \in BOOLEAN :
           Inference(d[1], d[2], predict_only_last)

SpecCRF == InitCRF /\ [][NextCRF]_vars

----------------------------------------------------------------------------
(* Specification SpecDecode: inference applied once to an instance that    *)
(* loaded a model saved by train.                                          *)

MaxModelLen == 2     \* longest training sequence behind a loaded model
MaxDecodeLen == 3    \* longest sequence decoded

\* The models that train saves for one-sequence corpora.
SavedModels ==
    UNION {LET fs == scan(NewFeatureSet(CRFNames), <<d>>)
           IN {SavedModel(fs, prms) : prms \in ParamVectors(fs.num_features)}
           : d \in DataLists(CRFNames, MaxModelLen)}

\* inference(x) for free decoding (y is None by default and unused),
\* inference(x, y, True) for history-pinned decoding.
DecodeInputs ==
    {[x |-> d[1], y |-> d[2], predict_only_last |-> TRUE] :
        d \in DataLists(CRFNames, MaxDecodeLen)}
    \cup {[x |-> d[1], y |-> None, predict_only_last |-> FALSE] :
        d \in DataLists(CRFNames, MaxDecodeLen)}

InitDecode ==
    \E model \in SavedModels :
      \E loaded \in {Loaded(model)} :
      \E input \in DecodeInputs :
        /\ feature_set = loaded.feature_set
        /\ label_dic = loaded.label_dic
        /\ label_array = loaded.label_array
        /\ num_labels = loaded.num_labels
        /\ params = loaded.params
        /\ params_from = "load"
        /\ model_file = Some(model)
        /\ training_data = None
        /\ scanned = <<>>
        /\ fb = NoFrame
        /\ globals = InitialGlobals
        /\ runs = <<>>
        /\ call = [op |-> "pending", x |-> input.x, y |-> input.y,
                   predict_only_last |-> input.predict_only_last]

\* inference(x, y, predict_only_last) on the pending input.
Decode ==
    /\ call.op = "pending"
    /\ Inference(call.x, call.y, call.predict_only_last)

NextDecode == Decode

SpecDecode == InitDecode /\ [][NextDecode]_vars

----------------------------------------------------------------------------
(* Decoding on a loaded model *)

FreeDecoded == call.op = "inference" /\ ~call.predict_only_last
PinnedDecoded == call.op = "inference" /\ call.predict_only_last

\* C2: free decoding of a sequence of length T >= 1 on a loaded model
\* returns exactly T labels, none of which is the starting label '*'.
C2_FreeDecodeOnlyRealLabels ==
    FreeDecoded =>
        /\ call.raised = NoError
        /\ Len(call.value) = Len(call.x)
        /\ \A i \in 1..Len(call.value) : call.value[i] # S(STARTING_LABEL)

\* The labels the loaded model knows.
KnownLabels == {Val(label_dic)[k] : k \in DOMAIN Val(label_dic)}

\* C3: history-pinned decoding on a loaded model returns as many labels as
\* the sequence is long, and every label but the last is the true label
\* at its position; it raises only when a label of the history is not a
\* label of the model.
C3_PinnedDecodeEchoesHistory ==
    PinnedDecoded =>
        /\ call.raised \in {NoError, "KeyError"}
        /\ call.raised = "KeyError" <=>
               \E t \in 1..Len(call.y) :
                   (t < Len(call.y) \/ Len(call.y) = 1)
                       /\ S(call.y[t]) \notin KnownLabels
        /\ call.raised = NoError =>
               /\ Len(call.value) = Len(call.x)
               /\ \A t \in 1..(Len(call.x) - 1) : call.value[t] = S(call.y[t])

\* A sequence of three steps was decoded with a history of two different
\* labels, and the last label returned is not the true one.
C3_Witness ==
    /\ PinnedDecoded
    /\ call.raised = NoError
    /\ Len(call.x) = 3
    /\ call.y[1] # call.y[2]
    /\ call.value[3] # S(call.y[3])
    /\ call.value[3] # S(STARTING_LABEL)

\* potential[0][starting_label, y] of the decoded sequence.
StartPotential(y) ==
    _generate_potential_table(Val(params), Val(num_labels), Val(feature_set),
                              call.x, TRUE)[1][<<STARTING_LABEL_INDEX, y>>]

\* C4: for a sequence of length 1 both decoders return the real label y
\* with the highest potential[0][starting_label, y], and subscript the
\* label sequence and the tables at position 0 only.
C4_LengthOneIsOneLookup ==
    (call.op = "inference" /\ Len(call.x) = 1) =>
        /\ call.raised = NoError
        /\ call.indices \subseteq {0}
        /\ \E y \in 1..(Val(num_labels) - 1) :
              /\ call.value = <<Val(label_dic)[I(y)]>>
              /\ \A z \in 1..(Val(num_labels) - 1) :
                     ~RGt(StartPotential(z), StartPotential(y))

----------------------------------------------------------------------------
(* The life cycle of an instance *)

\* C5: test on a corpus right after train, on the same instance, and test
\* on the same corpus after the saved model was loaded both return, and
\* return the same (correct_count, total_count).
C5_TestSameBeforeAndAfterReload ==
    (call.op = "test" /\ params_from = "train" /\ call.data # <<>>) =>
        LET reloaded == test(Loaded(Val(model_file)), call.data,
                             call.predict_only_last)
        IN /\ call.raised = NoError
           /\ reloaded.raised = NoError
           /\ call.value = reloaded.value

Attributes ==
    <<feature_set, training_data, label_dic, label_array, num_labels, params>>

\* C6: test and inference on an instance whose params is None raise and
\* return nothing; test raises before it reads the corpus and leaves the
\* instance and the model file as they were.
C6_UntrainedCallsRaise ==
    [][(params = None /\ call'.op \in {"test", "inference"}) =>
          /\ call'.raised # NoError
          /\ call'.value = None
          /\ call'.op = "test" =>
                /\ call'.raised = "BaseException"
                /\ ~call'.read
                /\ UNCHANGED <<Attributes, model_file>>]_vars

\* test was called with a corpus of one sequence on an instance that was
\* neither trained nor loaded.
C6_Witness ==
    /\ params = None
    /\ call.op = "test"
    /\ call.data # <<>>
    /\ call.raised = "BaseException"

\* What the caller of train has in hand afterwards: the outcome of the call,
\* the attributes of the instance and the saved model.
TrainOutcome == <<call.raised, call.value, Attributes, model_file>>

\* The same after a train that fits the same parameters on the same corpus
\* and whose optimizer reports warnflag 0.
ConvergedTrainOutcome ==
    LET fs == scan(NewFeatureSet(CRFNames), Val(training_data))
    IN <<NoError, None,
         <<Some(fs), training_data, Some(fs.label_dic), Some(fs.label_array),
           Some(Len(fs.label_array)), params>>,
         Some(SavedModel(fs, Val(params)))>>

\* C7: when the optimizer ends with a non-zero warnflag, what train hands
\* to its caller (return value, raised error, state of the instance)
\* carries that status, so that it differs from the outcome of a converged
\* training; the fitted parameters are stored and saved all the same.
C7_WarningReachesCaller ==
    (call.op = "train" /\ call.information.warnflag # 0) =>
        /\ TrainOutcome # ConvergedTrainOutcome
        /\ params # None
        /\ model_file # None /\ Val(model_file).params = Val(params)

----------------------------------------------------------------------------
(* crf.py: _forward_backward, one action per pass of its loops.  The frame *)
(* fb holds the arguments and the local variables of the call; alpha and   *)
(* beta are lists of rows, a row being a function of the label id.         *)

\* SCALING_THRESHOLD is 1e250 in crf.py.  The potentials of this model are
\* powers of two of small integer scores, and the threshold is scaled down
\* with them so that they can exceed it, yet not so far that three steps
\* with all parameters 0 (potentials 1, alpha at most 4) exceed it.
SCALING_THRESHOLD == 4

\* np.dot(a, b) of two vectors indexed by the label ids.
RECURSIVE Dot(_, _, _)
Dot(a, b, ids) ==
    IF ids = {} THEN Zero
    ELSE LET i == CHOOSE j \in ids : TRUE
         IN RAdd(RMul(a[i], b[i]), Dot(a, b, ids \ {i}))

\* potential_table[t][:, label_id] and potential_table[t][label_id, :]
Column(table, n, label_id) == [i \in LabelIds(n) |-> table[<<i, label_id>>]]
Row(table, n, label_id) == [i \in LabelIds(n) |-> table[<<label_id, i>>]]

\* dic[key] = value
SetItem(dic, key, value) ==
    [k \in DOMAIN dic \cup {key} |-> IF k = key THEN value ELSE dic[k]]

\* The loop "while label_id < num_labels" of the forward recursion at
\* time f.t, from label_id on; it ends by exhaustion, by break after the
\* first overflow, or by raise.
RECURSIVE ForwardLabels(_, _)
ForwardLabels(f, label_id) ==
    IF label_id >= f.num_labels THEN f
    ELSE LET Stored(value, g) ==
                IF RGt(value, Rat(SCALING_THRESHOLD, 1))
                THEN IF f.overflow_occured
                     THEN [g EXCEPT !.raised = "BaseException"]
                     ELSE [g EXCEPT !.overflow_occured = TRUE,
                                    !.scaling_time = Some(f.t - 1),
                                    !.scaling_coefficient = Some(SCALING_THRESHOLD),
                                    !.scaling_dic = SetItem(f.scaling_dic, f.t - 1,
                                                            SCALING_THRESHOLD)]
                ELSE ForwardLabels(g, label_id + 1)
             Computed(value) ==
                CHOOSE out_g \in {Stored(value, g) :
                    g \in {[f EXCEPT !.alpha[f.t + 1][label_id] = value]}} : TRUE
         IN CHOOSE out_value \in {Computed(value) :
                value \in {Dot(f.alpha[f.t],
                               Column(f.potential_table[f.t + 1],
                                      f.num_labels, label_id),
                               LabelIds(f.num_labels))}} : TRUE

\* ForwardPass that leaves alpha[t] as computed after an overflow.
ForwardPass_KeepsRow(f) ==
    (LET Of_g(g) ==
       IF g.raised # NoError THEN [g EXCEPT !.pc = "raised"]
       ELSE IF g.overflow_occured
       THEN [g EXCEPT
               !.alpha[g.t] = [i \in LabelIds(g.num_labels) |->
                                 RDiv(g.alpha[g.t][i],
                                      Rat(Val(g.scaling_coefficient), 1))]]
       ELSE [g EXCEPT !.t = g.t + 1]
     IN CHOOSE out_g \in {Of_g(g) : g \in {ForwardLabels([f EXCEPT !.scaling_time = None,
                                 !.scaling_coefficient = None,
                                 !.overflow_occured = FALSE], 1)}} : TRUE)

\* ForwardPass that records an overflow but leaves alpha[t-1] undivided.
ForwardPass_NoDivision(f) ==
    (LET Of_g(g) ==
       IF g.raised # NoError THEN [g EXCEPT !.pc = "raised"]
       ELSE IF g.overflow_occured
       THEN [g EXCEPT
               !.alpha[g.t + 1] = [i \in LabelIds(g.num_labels) |-> Zero]]
       ELSE [g EXCEPT !.t = g.t + 1]
     IN CHOOSE out_g \in {Of_g(g) : g \in {ForwardLabels([f EXCEPT !.scaling_time = None,
                                 !.scaling_coefficient = None,
                                 !.overflow_occured = FALSE], 1)}} : TRUE)

\* One pass of "while t < time_length": the locals are reset, the labels
\* are run through, and then alpha[t-1] is divided and alpha[t] zeroed
\* (overflow) or t is incremented.
ForwardPass(f) ==
    (LET Of_g(g) ==
       IF g.raised # NoError THEN [g EXCEPT !.pc = "raised"]
       ELSE IF g.overflow_occured
       THEN [g EXCEPT
               !.alpha[g.t] = [i \in LabelIds(g.num_labels) |->
                                 RDiv(g.alpha[g.t][i],
                                      Rat(Val(g.scaling_coefficient), 1))],
               !.alpha[g.t + 1] = [i \in LabelIds(g.num_labels) |-> Zero]]
       ELSE [g EXCEPT !.t = g.t + 1]
     IN CHOOSE out_g \in {Of_g(g) : g \in {ForwardLabels([f EXCEPT !.scaling_time = None,
                                 !.scaling_coefficient = None,
                                 !.overflow_occured = FALSE], 1)}} : TRUE)

\* The loop "for t in range(time_length-2, -1, -1)" of the backward
\* recursion, from time t down.
RECURSIVE BackwardRows(_, _, _)
BackwardRows(f, beta, t) ==
    IF t < 0 THEN beta
    ELSE LET row == [i \in LabelIds(f.num_labels) |->
                       IF i = 0 THEN Zero
                       ELSE Dot(beta[t + 2],
                                Row(f.potential_table[t + 2], f.num_labels, i),
                                LabelIds(f.num_labels))]
             scaled == IF t \in DOMAIN f.scaling_dic
                       THEN [i \in LabelIds(f.num_labels) |->
                               RDiv(row[i], Rat(f.scaling_dic[t], 1))]
                       ELSE row
         IN BackwardRows(f, [beta EXCEPT ![t + 1] = scaled], t - 1)

\* sum(alpha[time_length-1])
RECURSIVE Sum(_, _)
Sum(row, ids) ==
    IF ids = {} THEN Zero
    ELSE LET i == CHOOSE j \in ids : TRUE
         IN RAdd(row[i], Sum(row, ids \ {i}))

----------------------------------------------------------------------------
(* Specification SpecFB: one call of _forward_backward made by             *)
(* _log_likelihood while train estimates the parameters.                   *)

MaxFBLen == 3        \* longest training sequence in SpecFB

\* train has read a corpus of one sequence and scanned it; the optimizer
\* evaluates _log_likelihood at a parameter vector, which generates the
\* potential table and calls _forward_backward.
InitFB ==
    \E d \in DataLists(CRFNames, MaxFBLen) :
      \E fs \in {scan(NewFeatureSet(CRFNames), <<d>>)} :
      \E prms \in ParamVectors(fs.num_features) :
      \E X_features \in {FeatureData(fs, d[1])} :
        /\ training_data = Some(<<d>>)
        /\ feature_set = Some(fs)
        /\ label_dic = Some(fs.label_dic)
        /\ label_array = Some(fs.label_array)
        /\ num_labels = Some(Len(fs.label_array))
        /\ params = None
        /\ params_from = "none"
        /\ model_file = None
        /\ scanned = <<>>
        /\ globals = InitialGlobals
        /\ runs = <<NewRun(OptimizerArgs(<<d>>, fs))>>
        /\ call = [op |-> "_log_likelihood", params |-> prms]
        /\ fb = [pc |-> "called",
                 num_labels |-> Cardinality(DOMAIN fs.label_dic),
                 time_length |-> Len(X_features),
                 potential_table |->
                     _generate_potential_table(prms,
                         Cardinality(DOMAIN fs.label_dic), fs, X_features, FALSE)]

Instance ==
    <<feature_set, training_data, label_dic, label_array, num_labels, params,
      model_file, call, params_from, scanned>>

\* alpha is allocated and alpha[0] is filled from the starting row.
ForwardStart ==
    /\ fb.pc = "called"
    /\ fb' = [pc |-> "forward",
              num_labels |-> fb.num_labels,
              time_length |-> fb.time_length,
              potential_table |-> fb.potential_table,
              alpha |-> [t \in 1..fb.time_length |->
                           [i \in LabelIds(fb.num_labels) |->
                              IF t = 1
                              THEN fb.potential_table[1][<<STARTING_LABEL_INDEX, i>>]
                              ELSE Zero]],
              scaling_dic |-> <<>>,
              t |-> 1,
              scaling_time |-> None,
              scaling_coefficient |-> None,
              overflow_occured |-> FALSE,
              raised |-> NoError]
    /\ UNCHANGED <<Instance, globals, runs>>

\* One pass of the forward loop.
ForwardStep ==
    /\ fb.pc = "forward"
    /\ fb.t < fb.time_length
    /\ fb' = ForwardPass(fb)
    /\ UNCHANGED <<Instance, globals, runs>>

\* Backward with Z taken from the first row of alpha.
Backward_ZOfFirstRow ==
    /\ fb.pc = "forward"
    /\ fb.t >= fb.time_length
    /\ fb' = [pc |-> "returned",
              num_labels |-> fb.num_labels,
              time_length |-> fb.time_length,
              potential_table |-> fb.potential_table,
              alpha |-> fb.alpha,
              beta |-> BackwardRows(fb,
                          [t \in 1..fb.time_length |->
                             [i \in LabelIds(fb.num_labels) |->
                                IF t = fb.time_length THEN One ELSE Zero]],
                          fb.time_length - 2),
              Z |-> Sum(fb.alpha[1], LabelIds(fb.num_labels)),
              scaling_dic |-> fb.scaling_dic]
    /\ UNCHANGED <<Instance, globals, runs>>

\* The forward loop is left; beta and Z are computed and the call returns
\* (alpha, beta, Z, scaling_dic).
Backward ==
    /\ fb.pc = "forward"
    /\ fb.t >= fb.time_length
    /\ fb' = [pc |-> "returned",
              num_labels |-> fb.num_labels,
              time_length |-> fb.time_length,
              potential_table |-> fb.potential_table,
              alpha |-> fb.alpha,
              beta |-> BackwardRows(fb,
                          [t \in 1..fb.time_length |->
                             [i \in LabelIds(fb.num_labels) |->
                                IF t = fb.time_length THEN One ELSE Zero]],
                          fb.time_length - 2),
              Z |-> Sum(fb.alpha[fb.time_length], LabelIds(fb.num_labels)),
              scaling_dic |-> fb.scaling_dic]
    /\ UNCHANGED <<Instance, globals, runs>>

NextFB == ForwardStart \/ ForwardStep \/ Backward

SpecFB == InitFB /\ [][NextFB]_vars

\* Computing alpha[f.t] from the frame f exceeds the threshold for some
\* label.
Overflows(f) ==
    \E label_id \in 1..(f.num_labels - 1) :
        RGt(Dot(f.alpha[f.t], Column(f.potential_table[f.t + 1],
                                     f.num_labels, label_id),
                LabelIds(f.num_labels)),
            Rat(SCALING_THRESHOLD, 1))

\* C1: when the pass before this one overflowed at alpha[t] and rescaled
\* alpha[t-1], and the retried computation of the same alpha[t] overflows
\* again, the call raises; it does not rescale once more and go on.
C1_SecondOverflowRaises ==
    [][(/\ fb.pc = "forward"
        /\ fb.t < fb.time_length
        /\ fb.overflow_occured
        /\ Overflows(fb))
          => fb'.pc = "raised"]_vars

----------------------------------------------------------------------------
(* Specification SpecPersist: the model file that train saved, possibly    *)
(* rewritten outside the program, and load.                                *)

MaxPersistLen == 2   \* longest sequence of the two-label training corpora
MaxLabels == 11      \* most distinct labels of a training sequence
MaxKeyLen == 4       \* longest transition key written into a model file

\* The label of a corpus with many labels.
LabelName(i) == "L" \o ToString(i)

\* A sequence of n steps with n distinct labels and the same observation
\* at every step.
ManyLabels(obs, n) == <<[t \in 1..n |-> obs], [t \in 1..n |-> LabelName(t)]>>

PersistCorpora ==
    {<<d>> : d \in DataLists(CRFNames, MaxPersistLen)}
    \cup {<<ManyLabels(obs, n)>> : obs \in Observations(CRFNames), n \in 1..MaxLabels}

\* The characters of the keys of a rewritten file.
KeyChars == {"1", "-", "+", "_", "a"}
KeyStrings == UNION {[1..k -> KeyChars] : k \in 1..MaxKeyLen}

\* The instance right after train(corpus): the corpus is scanned, the
\* parameters (here all 0) are stored and the model is saved.
InitPersist ==
    \E corpus \in PersistCorpora :
      \E fs \in {scan(NewFeatureSet(CRFNames), corpus)} :
        /\ training_data = Some(corpus)
        /\ feature_set = Some(fs)
        /\ label_dic = Some(fs.label_dic)
        /\ label_array = Some(fs.label_array)
        /\ num_labels = Some(Len(fs.label_array))
        /\ params = Some([i \in 1..fs.num_features |-> 0])
        /\ params_from = "train"
        /\ model_file = Some(SavedModel(fs, [i \in 1..fs.num_features |-> 0]))
        /\ call = [op |-> "train", raised |-> NoError, value |-> None,
                   information |-> [warnflag |-> 0], printed_warning |-> FALSE]
        /\ scanned = <<>>
        /\ fb = NoFrame
        /\ globals = AfterOptimizer(InitialGlobals, 0,
                                    [i \in 1..fs.num_features |-> 0],
                                    OptimizerArgs(corpus, fs))
        /\ runs = <<>>

\* The model that train saved for the training corpus of the instance.
SavedByTrain ==
    LET fs == scan(NewFeatureSet(CRFNames), Val(training_data))
    IN SavedModel(fs, [i \in 1..fs.num_features |-> 0])

\* Outside the program the saved file is rewritten once: the entry of a
\* feature string gets the transition key `key`, with feature id 0.
RewriteFile(f, key) ==
    /\ LET model == Val(model_file)
           entry == IF f \in DOMAIN model.feature_dic
                    THEN model.feature_dic[f] ELSE <<>>
       IN model_file' =
            Some([model EXCEPT !.feature_dic =
                    [g \in DOMAIN model.feature_dic \cup {f} |->
                        IF g = f
                        THEN [k \in DOMAIN entry \cup {key} |->
                                IF k = key THEN 0 ELSE entry[k]]
                        ELSE model.feature_dic[g]]])
    /\ call' = [op |-> "rewrite"]
    /\ UNCHANGED <<feature_set, training_data, label_dic, label_array,
                   num_labels, params, params_from, scanned, fb,
                   globals, runs>>

NextPersist ==
    \/ /\ model_file = Some(SavedByTrain)
       /\ \E f \in Range(CRFNames), key \in KeyStrings : RewriteFile(f, key)
    \/ Load

SpecPersist == InitPersist /\ [][NextPersist]_vars

\* The feature dictionary that scan built from the training corpus.
ScannedFeatureDic ==
    scan(NewFeatureSet(CRFNames), Val(training_data)).feature_dic

\* C11: load of the file that train saved gives a feature dictionary
\* equal to the one scan built: the same feature strings, the same
\* (prev_y, y) keys, unigram keys and label indices of two digits
\* included, and the same ids.
C11_FeatureDicRoundTrip ==
    (call.op = "load" /\ model_file = Some(SavedByTrain)) =>
        /\ call.raised = NoError
        /\ Val(feature_set).feature_dic = ScannedFeatureDic

\* A dictionary with a unigram key and with label indices above 9 was
\* saved and loaded.
C11_Witness ==
    /\ call.op = "load"
    /\ call.raised = NoError
    /\ model_file = Some(SavedByTrain)
    /\ \E f \in DOMAIN ScannedFeatureDic :
          /\ \E tr \in DOMAIN ScannedFeatureDic[f] : tr[1] = -1 /\ tr[2] >= 10
          /\ \E tr \in DOMAIN ScannedFeatureDic[f] : tr[1] >= 10 /\ tr[2] >= 10

\* An integer literal as int() reads it: an optional sign, then digits.
IntLiteral(str) ==
    /\ Len(str) >= 1
    /\ LET digits == IF str[1] \in {"-", "+"} THEN Tail(str) ELSE str
       IN /\ Len(digits) >= 1
          /\ \A i \in 1..Len(digits) : digits[i] \in Range(Digit)

\* A key of the form '<int>_<int>'.
IsTransitionKey(key) ==
    \E i \in 1..Len(key) :
        /\ key[i] = "_"
        /\ IntLiteral(SubSeq(key, 1, i - 1))
        /\ IntLiteral(SubSeq(key, i + 1, Len(key)))

\* The keys of a serialized feature dictionary.
KeysOf(serialized) == UNION {DOMAIN serialized[f] : f \in DOMAIN serialized}

\* C12: load of a file that has a transition key not of the form
\* '<int>_<int>' raises ValueError, and the feature_dic of the FeatureSet
\* stays the empty dictionary of its construction: no map built from the
\* file is installed, neither a partial nor a corrupted one.
C12_MalformedKeyRaises ==
    [][(/\ call'.op = "load"
        /\ model_file # None
        /\ \E key \in KeysOf(Val(model_file).feature_dic) : ~IsTransitionKey(key))
          => /\ call'.raised = "ValueError"
             /\ Val(feature_set').feature_dic = NewFeatureSet(CRFNames).feature_dic]_vars

\* A file with well-formed keys and one malformed key was loaded.
C12_Witness ==
    /\ call.op = "load"
    /\ call.raised = "ValueError"
    /\ \E key \in KeysOf(Val(model_file).feature_dic) : ~IsTransitionKey(key)
    /\ \E key \in KeysOf(Val(model_file).feature_dic) : IsTransitionKey(key)

----------------------------------------------------------------------------
(* Specification SpecPotential: one call of _generate_potential_table, by  *)
(* inference on an observation sequence or by _log_likelihood on the       *)
(* feature data of the training sequence.                                  *)

MaxPotTrainLen == 2  \* longest training sequence
MaxPotActive == 2    \* most active features of a training sequence
MaxPotLen == 2       \* longest sequence given to inference

RECURSIVE ActiveCount(_, _)
ActiveCount(x, t) ==
    IF t > Len(x) THEN 0
    ELSE Cardinality({i \in DOMAIN x[t] : x[t][i] = 1}) + ActiveCount(x, t + 1)

PotentialCorpora ==
    {<<d>> : d \in {e \in DataLists(ScanNames, MaxPotTrainLen) :
                       ActiveCount(e[1], 1) <= MaxPotActive}}

PotentialSequences ==
    UNION {[1..k -> Observations(ScanNames)] : k \in 1..MaxPotLen}

\* The instance has scanned a training corpus of one sequence;
\* _generate_potential_table is about to be called with a parameter
\* vector, either on an observation sequence (inference) or on the
\* feature data of the training sequence (_log_likelihood).
InitPotential ==
    \E corpus \in PotentialCorpora :
      \E fs \in {scan(NewFeatureSet(ScanNames), corpus)} :
      \E prms \in ParamVectors(fs.num_features) :
      \E decoding \in BOOLEAN :
      \E sequence \in IF decoding THEN PotentialSequences
                       ELSE {FeatureData(fs, corpus[1][1])} :
      \E input \in {[x |-> sequence, inference |-> decoding]} :
        /\ training_data = Some(corpus)
        /\ feature_set = Some(fs)
        /\ label_dic = Some(fs.label_dic)
        /\ label_array = Some(fs.label_array)
        /\ num_labels = Some(Len(fs.label_array))
        /\ params = IF input.inference THEN Some(prms) ELSE None
        /\ params_from = IF input.inference THEN "train" ELSE "none"
        /\ model_file = IF input.inference THEN Some(SavedModel(fs, prms)) ELSE None
        /\ scanned = <<>>
        /\ fb = NoFrame
        /\ globals = IF input.inference
                     THEN AfterOptimizer(InitialGlobals, 1, prms,
                                         OptimizerArgs(corpus, fs))
                     ELSE InitialGlobals
        /\ runs = IF input.inference THEN <<>>
                  ELSE <<NewRun(OptimizerArgs(corpus, fs))>>
        /\ call = [op |-> "pending", params |-> prms, x |-> input.x,
                   inference |-> input.inference]

\* _generate_potential_table(params, num_labels, feature_set, x, inference)
GeneratePotentialTable ==
    /\ call.op = "pending"
    /\ call' = [op |-> "_generate_potential_table", params |-> call.params,
                x |-> call.x, inference |-> call.inference,
                value |-> _generate_potential_table(call.params, Val(num_labels),
                              Val(feature_set), call.x, call.inference)]
    /\ UNCHANGED <<feature_set, training_data, label_dic, label_array,
                   num_labels, params, model_file, params_from, scanned, fb,
                   globals, runs>>

NextPotential == GeneratePotentialTable

SpecPotential == InitPotential /\ [][NextPotential]_vars

Generated == call.op = "_generate_potential_table"

\* The observation sequence x without the feature strings that scan did
\* not register.
RegisteredOnly(fs, x) ==
    [t \in 1..Len(x) |->
        [i \in DOMAIN x[t] |->
            IF fs.features_names[i] \in DOMAIN fs.feature_dic THEN x[t][i] ELSE 0]]

\* C13: the potential table of inference for an observation sequence with
\* active feature strings that scan did not register is the table of the
\* sequence without those strings: each of them adds 0 to every score.
C13_UnknownStringsAddNothing ==
    (Generated /\ call.inference) =>
        call.value = _generate_potential_table(call.params, Val(num_labels),
                        Val(feature_set),
                        RegisteredOnly(Val(feature_set), call.x), TRUE)

\* At some step an unregistered string is active before a registered one
\* whose score is not 0.
C13_Witness ==
    /\ Generated
    /\ call.inference
    /\ \E t \in 1..Len(call.x) :
          /\ call.x[t] = <<1, 1>>
          /\ ScanNames[1] \notin DOMAIN Val(feature_set).feature_dic
          /\ ScanNames[2] \in DOMAIN Val(feature_set).feature_dic
          /\ \E cell \in DOMAIN call.value[t] :
                call.value[t][cell] \notin {Zero, One}

\* C14: at every time step after the first, the cells of the potential
\* table in the row and in the column of the starting label are 0, in
\* inference and in training mode.
C14_StartRowAndColumnZero ==
    Generated =>
        \A t \in 2..Len(call.value) :
            \A cell \in DOMAIN call.value[t] :
                (cell[1] = STARTING_LABEL_INDEX \/ cell[2] = STARTING_LABEL_INDEX)
                    => call.value[t][cell] = Zero

\* A training-mode table of two steps whose second step has a score
\* other than 0.
C14_Witness ==
    /\ Generated
    /\ ~call.inference
    /\ Len(call.value) = 2
    /\ \E cell \in DOMAIN call.value[2] : call.value[2][cell] \notin {Zero, One}

\* The cells of the table of the first step outside the starting row.
LaterRows(table) == {cell \in DOMAIN table : cell[1] >= STARTING_LABEL_INDEX + 1}

\* C15 as stated: in the table of the first step every cell of the rows
\* other than the starting row is exp(0) = 1.
C15_LaterRowsAreOne ==
    Generated =>
        \A cell \in LaterRows(call.value[1]) : call.value[1][cell] = One

\* C15: in the table of the first step the rows other than the starting
\* row are set to 0 after the exponentiation, so every cell of them is 0.
C15_LaterRowsAreZero ==
    Generated =>
        \A cell \in LaterRows(call.value[1]) : call.value[1][cell] = Zero

\* A first-step table with a unigram score other than 0, whose column is
\* other than 1 in the starting row.
C15_Witness ==
    /\ Generated
    /\ \E y \in 1..(Val(num_labels) - 1) :
          call.value[1][<<STARTING_LABEL_INDEX, y>>] \notin {Zero, One}

----------------------------------------------------------------------------
(* The partition function *)

Returned == fb.pc = "returned"

\* The sum, over the sequences of real labels for the steps t..T that
\* follow the label prev, of the product of their potentials.
RECURSIVE PathSums(_, _, _, _)
PathSums(potential_table, n, t, prev) ==
    IF t > Len(potential_table) THEN One
    ELSE LET weight == [y \in LabelIds(n) |->
                          IF y = STARTING_LABEL_INDEX THEN Zero
                          ELSE RMul(potential_table[t][<<prev, y>>],
                                    PathSums(potential_table, n, t + 1, y))]
         IN Sum(weight, LabelIds(n))

\* The unscaled partition function of a potential table.
Partition(potential_table, n) ==
    PathSums(potential_table, n, 1, STARTING_LABEL_INDEX)

\* The product of the coefficients recorded in scaling_dic.
RECURSIVE Coefficients(_, _)
Coefficients(dic, keys) ==
    IF keys = {} THEN One
    ELSE LET k == CHOOSE j \in keys : TRUE
         IN RMul(Rat(dic[k], 1), Coefficients(dic, keys \ {k}))

\* C16: for a sequence of two or more steps, whatever the number of
\* rescalings of the forward pass, several at the same step included, Z
\* times the product of the coefficients in scaling_dic is the unscaled
\* partition function.
C16_ScalingCompensatesZ ==
    (Returned /\ fb.time_length >= 2) =>
        RMul(fb.Z, Coefficients(fb.scaling_dic, DOMAIN fb.scaling_dic))
            = Partition(fb.potential_table, fb.num_labels)

\* The parameter vector of the call is all 0.
ZeroParams == \A i \in DOMAIN call.params : call.params[i] = 0

\* C17 as stated: for three steps, two real labels and all parameters 0,
\* Z is 4.
C17_ZIsFour ==
    (Returned /\ fb.time_length = 3 /\ fb.num_labels = 3 /\ ZeroParams) =>
        fb.Z = Rat(4, 1)

\* C17: for three steps, two real labels and all parameters 0, Z is 8,
\* the number of sequences of three real labels, and nothing is rescaled.
C17_ZIsEight ==
    (Returned /\ fb.time_length = 3 /\ fb.num_labels = 3 /\ ZeroParams) =>
        /\ fb.Z = Rat(8, 1)
        /\ fb.scaling_dic = <<>>

\* The call returned for three steps, two real labels, features active at
\* every step and all parameters 0.
C17_Witness ==
    /\ Returned
    /\ fb.time_length = 3
    /\ fb.num_labels = 3
    /\ ZeroParams
    /\ Len(call.params) >= 4

\* C18: when the forward pass rescales nothing, Z is the sum over the
\* sequences of T real labels of the product of the potentials on the
\* path from the starting label, for T = 1 as for longer sequences.
C18_ZIsPathSum ==
    (Returned /\ fb.scaling_dic = <<>>) =>
        fb.Z = Partition(fb.potential_table, fb.num_labels)

----------------------------------------------------------------------------
(* Optimality of the decoders *)

\* The potential table of the decoded sequence.
DecodeTable ==
    _generate_potential_table(Val(params), Val(num_labels), Val(feature_set),
                              call.x, TRUE)

RealLabelIds == 1..(Val(num_labels) - 1)

\* The label ids of the labels returned.
DecodedIds ==
    [i \in 1..Len(call.value) |->
        ReverseDict(Val(label_dic))[call.value[i]][2]]

\* The product of the potentials along the path ids[t..] entered from prev.
RECURSIVE PathScore(_, _, _, _)
PathScore(potential_table, ids, t, prev) ==
    IF t > Len(ids) THEN One
    ELSE RMul(potential_table[t][<<prev, ids[t]>>],
              PathScore(potential_table, ids, t + 1, ids[t]))

\* The highest path score of a sequence of real labels for the steps t..T
\* entered from prev.
RECURSIVE MaxPathScore(_, _, _, _)
MaxPathScore(potential_table, real, t, prev) ==
    IF t > Len(potential_table) THEN One
    ELSE LET score == [y \in real |->
                          RMul(potential_table[t][<<prev, y>>],
                               MaxPathScore(potential_table, real, t + 1, y))]
         IN score[CHOOSE y \in real : \A z \in real : ~RGt(score[z], score[y])]

\* C19: for a sequence of two or more steps, free decoding returns a
\* sequence of real labels whose path score from the starting label is the
\* maximum path score over all sequences of as many real labels.
C19_ViterbiPathIsBest ==
    (FreeDecoded /\ Len(call.x) >= 2) =>
        /\ call.raised = NoError
        /\ Len(call.value) = Len(call.x)
        /\ \A i \in 1..Len(call.value) : DecodedIds[i] \in RealLabelIds
        /\ PathScore(DecodeTable, DecodedIds, 1, STARTING_LABEL_INDEX)
               = MaxPathScore(DecodeTable, RealLabelIds, 1, STARTING_LABEL_INDEX)

\* Three steps were decoded freely into two different labels, and some
\* sequence of real labels scores strictly less than the one returned.
C19_Witness ==
    /\ FreeDecoded
    /\ call.raised = NoError
    /\ Len(call.x) = 3
    /\ \E i, j \in 1..3 : call.value[i] # call.value[j]
    /\ \E ids \in [1..3 -> RealLabelIds] :
           RGt(PathScore(DecodeTable, DecodedIds, 1, STARTING_LABEL_INDEX),
               PathScore(DecodeTable, ids, 1, STARTING_LABEL_INDEX))

\* The id of the true label before the last one.
LastButOneId == ReverseDict(Val(label_dic))[S(call.y[Len(call.y) - 1])][2]

\* C20: for a sequence of two or more steps, the last label returned by
\* history-pinned decoding is a real label y with the highest
\* potential[T-1][true_label[T-2], y], true_label[T-2] being the label
\* supplied in y.
C20_PinnedLastLabelIsBest ==
    (PinnedDecoded /\ Len(call.x) >= 2 /\ call.raised = NoError) =>
        LET last == DecodedIds[Len(call.value)]
            row == DecodeTable[Len(call.x)]
        IN /\ last \in RealLabelIds
           /\ \A z \in RealLabelIds :
                  ~RGt(row[<<LastButOneId, z>>], row[<<LastButOneId, last>>])

\* Three steps were decoded with a history of two different labels, and
\* some real label has a strictly lower potential after the second true
\* label than the label returned.
C20_Witness ==
    /\ PinnedDecoded
    /\ call.raised = NoError
    /\ Len(call.x) = 3
    /\ call.y[1] # call.y[2]
    /\ \E z \in RealLabelIds :
           RGt(DecodeTable[3][<<LastButOneId, DecodedIds[3]>>],
               DecodeTable[3][<<LastButOneId, z>>])

----------------------------------------------------------------------------
(* The counts of test *)

RECURSIVE TimeSteps(_, _)
TimeSteps(test_data, i) ==
    IF i > Len(test_data) THEN 0
    ELSE Len(test_data[i][2]) + TimeSteps(test_data, i + 1)

\* C21: test on a loaded model, when no label of the corpus is unknown to
\* the model, returns (correct_count, total_count) with
\* 0 <= correct_count <= total_count, total_count being the number of
\* sequences with predict_only_last and the number of time steps without
\* it, and reports the accuracy for every corpus, the empty one included.
C21_TestReportsCounts ==
    (call.op = "test" /\ params_from = "load" /\ call.raised # "KeyError") =>
        /\ call.raised = NoError
        /\ call.value[2] = IF call.predict_only_last THEN Len(call.data)
                           ELSE TimeSteps(call.data, 1)
        /\ 0 <= call.value[1]
        /\ call.value[1] <= call.value[2]

----------------------------------------------------------------------------
(* Symmetry of the scaling of alpha and beta *)

\* The coefficient recorded for time t, 1 when t is not a scaling time.
RecordedCoefficient(f, t) ==
    IF t \in DOMAIN f.scaling_dic THEN Rat(f.scaling_dic[t], 1) ELSE One

\* sum over y of alpha[t,y] * beta[t,y], times the recorded coefficient.
Marginal(f, t) ==
    RMul(Dot(f.alpha[t + 1], f.beta[t + 1], LabelIds(f.num_labels)),
         RecordedCoefficient(f, t))

\* C22: when the call returns, for every time step t the sum over the
\* labels y of alpha[t,y] * beta[t,y], times the coefficient recorded for
\* t when t is a scaling time, equals Z: beta was divided by what alpha
\* was divided by.
C22_AlphaBetaSumIsZ ==
    Returned => \A t \in 0..(fb.time_length - 1) : Marginal(fb, t) = fb.Z

\* C23: in the potential table of every time step, t = 0 included, every
\* cell of the column of the starting label is 0; in particular
\* potential[0][starting label, starting label] = 0.
C23_NothingEndsInStartingLabel ==
    Generated =>
        \A t \in 1..Len(call.value) :
            \A prev_y \in LabelIds(Val(num_labels)) :
                call.value[t][<<prev_y, STARTING_LABEL_INDEX>>] = Zero

----------------------------------------------------------------------------
(* The rescaling step *)

\* alpha[t, y] as the forward recursion computes it from alpha[t-1].
ForwardValue(f, label_id) ==
    Dot(f.alpha[f.t], Column(f.potential_table[f.t + 1], f.num_labels, label_id),
        LabelIds(f.num_labels))

\* C24: a pass of the forward loop in which alpha[t] exceeds
\* SCALING_THRESHOLD for the first time records
\* scaling_dic[t-1] = SCALING_THRESHOLD, divides every entry of alpha[t-1]
\* by it, sets the row alpha[t] to 0 and leaves t as it is; the pass after
\* it, when it does not overflow, computes alpha[t] for every real label
\* from the divided alpha[t-1] and advances t.
C24_FirstOverflowRescales ==
    [][(fb.pc = "forward" /\ fb.t < fb.time_length) =>
         /\ (~fb.overflow_occured /\ Overflows(fb)) =>
               /\ fb'.pc = "forward"
               /\ fb'.t = fb.t
               /\ fb'.scaling_dic
                      = SetItem(fb.scaling_dic, fb.t - 1, SCALING_THRESHOLD)
               /\ \A i \in LabelIds(fb.num_labels) :
                      /\ fb'.alpha[fb.t][i]
                             = RDiv(fb.alpha[fb.t][i], Rat(SCALING_THRESHOLD, 1))
                      /\ fb'.alpha[fb.t + 1][i] = Zero
               /\ \A s \in 1..fb.time_length :
                      s \notin {fb.t, fb.t + 1} => fb'.alpha[s] = fb.alpha[s]
         /\ (fb.overflow_occured /\ ~Overflows(fb)) =>
               /\ fb'.t = fb.t + 1
               /\ fb'.scaling_dic = fb.scaling_dic
               /\ \A label_id \in 1..(fb.num_labels - 1) :
                      fb'.alpha[fb.t + 1][label_id] = ForwardValue(fb, label_id)]_vars

\* A pass has just overflowed: the event is recorded for t-1, the row
\* alpha[t] is 0, some entry of alpha[t-1] is a proper fraction of a
\* potential, and t has not moved.
C24_Witness ==
    /\ fb.pc = "forward"
    /\ fb.t < fb.time_length
    /\ fb.overflow_occured
    /\ (fb.t - 1) \in DOMAIN fb.scaling_dic
    /\ \A i \in LabelIds(fb.num_labels) : fb.alpha[fb.t + 1][i] = Zero
    /\ \E i \in LabelIds(fb.num_labels) : fb.alpha[fb.t][i][2] > 1
    /\ ~Overflows(fb)

----------------------------------------------------------------------------
(* Specification SpecModes: the potential tables of one scanned sequence   *)
(* in the two modes of _generate_potential_table.  The lists of feature    *)
(* names include one that names two columns of the input alike, so that    *)
(* VectorRepresentationInput returns a string twice.                       *)

MaxModeLen == 2      \* longest sequence scanned
MaxModeActive == 2   \* most active features of a sequence

ModeNames == {<<"f1", "f2">>, <<"f1", "f1">>}

ModeCorpora(names) ==
    {<<d>> : d \in {e \in DataLists(names, MaxModeLen) :
                       ActiveCount(e[1], 1) <= MaxModeActive}}

\* train has scanned a corpus of one sequence x; its potential tables are
\* about to be generated by _log_likelihood from the feature data of x and
\* by inference from x, with the same parameter vector.
InitModes ==
    \E names \in ModeNames :
      \E corpus \in ModeCorpora(names) :
      \E fs \in {scan(NewFeatureSet(names), corpus)} :
      \E prms \in ParamVectors(fs.num_features) :
        /\ training_data = Some(corpus)
        /\ feature_set = Some(fs)
        /\ label_dic = Some(fs.label_dic)
        /\ label_array = Some(fs.label_array)
        /\ num_labels = Some(Len(fs.label_array))
        /\ params = Some(prms)
        /\ params_from = "train"
        /\ model_file = Some(SavedModel(fs, prms))
        /\ scanned = <<>>
        /\ fb = NoFrame
        /\ globals = AfterOptimizer(InitialGlobals, 1, prms,
                                    OptimizerArgs(corpus, fs))
        /\ runs = <<>>
        /\ call = [op |-> "pending", params |-> prms, x |-> corpus[1][1],
                   training |-> None, decoding |-> None]

\* _generate_potential_table(params, num_labels, feature_set, X_features,
\* inference=False) with X_features from _get_training_feature_data.
GenerateTraining ==
    /\ call.op \in {"pending", "_generate_potential_table"}
    /\ call.training = None
    /\ call' = [call EXCEPT
                  !.op = "_generate_potential_table",
                  !.training =
                      Some(_generate_potential_table(call.params, Val(num_labels),
                               Val(feature_set),
                               FeatureData(Val(feature_set), call.x), FALSE))]
    /\ UNCHANGED <<feature_set, training_data, label_dic, label_array,
                   num_labels, params, model_file, params_from, scanned, fb,
                   globals, runs>>

\* _generate_potential_table(params, num_labels, feature_set, x,
\* inference=True)
GenerateInference ==
    /\ call.op \in {"pending", "_generate_potential_table"}
    /\ call.decoding = None
    /\ call' = [call EXCEPT
                  !.op = "_generate_potential_table",
                  !.decoding =
                      Some(_generate_potential_table(call.params, Val(num_labels),
                               Val(feature_set), call.x, TRUE))]
    /\ UNCHANGED <<feature_set, training_data, label_dic, label_array,
                   num_labels, params, model_file, params_from, scanned, fb,
                   globals, runs>>

NextModes == GenerateTraining \/ GenerateInference

SpecModes == InitModes /\ [][NextModes]_vars

\* C27: for a sequence of the scanned corpus and a parameter vector, the
\* potential tables built from get_feature_list (training) and from
\* calc_inner_products (inference) are equal cell for cell, also when the
\* feature function returns a string more than once at a position.
C27_ModesAgree ==
    (call.op = "_generate_potential_table"
        /\ call.training # None /\ call.decoding # None) =>
        Val(call.training) = Val(call.decoding)

----------------------------------------------------------------------------
(* Termination of the forward loop *)

\* _forward_backward runs to its end: every pass of its loops is
\* eventually executed.
LiveSpecFB == SpecFB /\ WF_vars(NextFB)

\* C28: the forward loop of _forward_backward ends: the call returns or
\* raises, and no time step is rescaled forever.
C28_ForwardLoopEnds == <>(fb.pc \in {"returned", "raised"})

\* The call returned after a row of alpha was divided more often than
\* scaling_dic records: a time step was rescaled more than once.
C28_Witness ==
    /\ Returned
    /\ fb.time_length >= 2
    /\ fb.scaling_dic # <<>>
    /\ RMul(fb.Z, Coefficients(fb.scaling_dic, DOMAIN fb.scaling_dic))
           # Partition(fb.potential_table, fb.num_labels)

----------------------------------------------------------------------------
(* Reloading a saved model *)

\* The feature set of the training that wrote the model file.
TrainedFeatureSet == scan(NewFeatureSet(CRFNames), Val(training_data))

\* C29: after train saved its model and load read it back, feature_dic,
\* num_features, label_array, params and the label dictionary of
\* get_labels equal those of the trained model; the label dictionary maps
\* each label to its dense index as after scan.
C29_ReloadRestoresModel ==
    (call.op = "load" /\ call.raised = NoError) =>
        /\ Val(feature_set).feature_dic = TrainedFeatureSet.feature_dic
        /\ Val(feature_set).num_features = TrainedFeatureSet.num_features
        /\ Val(label_array) = TrainedFeatureSet.label_array
        /\ Val(params) = Val(model_file).params
        /\ Val(label_dic) = TrainedFeatureSet.label_dic

----------------------------------------------------------------------------
(* Specification SpecGuard: _forward_backward on potential tables whose    *)
(* entries can exceed SCALING_THRESHOLD already in the starting row.       *)

MaxGuardLen == 2     \* longest training sequence in SpecGuard
MaxGuardWeight == 2  \* weights of SpecGuard are in -MaxGuardWeight..MaxGuardWeight

\* As InitFB, with the parameter vector drawn from the wider range.
InitGuard ==
    \E d \in DataLists(CRFNames, MaxGuardLen) :
      \E fs \in {scan(NewFeatureSet(CRFNames), <<d>>)} :
      \E prms \in [1..fs.num_features ->
                      (0 - MaxGuardWeight)..MaxGuardWeight] :
      \E X_features \in {FeatureData(fs, d[1])} :
        /\ training_data = Some(<<d>>)
        /\ feature_set = Some(fs)
        /\ label_dic = Some(fs.label_dic)
        /\ label_array = Some(fs.label_array)
        /\ num_labels = Some(Len(fs.label_array))
        /\ params = None
        /\ params_from = "none"
        /\ model_file = None
        /\ scanned = <<>>
        /\ globals = InitialGlobals
        /\ runs = <<NewRun(OptimizerArgs(<<d>>, fs))>>
        /\ call = [op |-> "_log_likelihood", params |-> prms]
        /\ fb = [pc |-> "called",
                 num_labels |-> Cardinality(DOMAIN fs.label_dic),
                 time_length |-> Len(X_features),
                 potential_table |->
                     _generate_potential_table(prms,
                         Cardinality(DOMAIN fs.label_dic), fs, X_features, FALSE)]

SpecGuard == InitGuard /\ [][NextFB]_vars

\* C30: when _forward_backward returns, every entry of alpha, in every row
\* from t = 0 to t = T-1, is at most SCALING_THRESHOLD.
C30_AlphaWithinThreshold ==
    Returned =>
        \A t \in 1..fb.time_length : \A i \in LabelIds(fb.num_labels) :
            ~RGt(fb.alpha[t][i], Rat(SCALING_THRESHOLD, 1))

----------------------------------------------------------------------------
(* crf.py: _log_likelihood and _gradient.  _forward_backward as a function *)
(* of its arguments runs the passes of ForwardPass to their end.           *)

RNeg(a) == <<0 - a[1], a[2]>>
RSub(a, b) == RAdd(a, RNeg(b))

RECURSIVE ForwardLoop(_)
ForwardLoop(f) ==
    IF f.pc = "forward" /\ f.t < f.time_length
    THEN (CHOOSE out_g \in {ForwardLoop(g) : g \in {ForwardPass(f)}} : TRUE)
    ELSE f

\* _forward_backward(num_labels, time_length, potential_table): what it
\* returns, or the error it raises.
_forward_backward(n, time_length, potential_table) ==
    (LET Of_f(f) ==
        IF f.raised # NoError THEN [raised |-> f.raised]
        ELSE [raised |-> NoError,
              alpha |-> f.alpha,
              beta |-> BackwardRows(f,
                          [t \in 1..time_length |->
                             [i \in LabelIds(n) |->
                                IF t = time_length THEN One ELSE Zero]],
                          time_length - 2),
              Z |-> Sum(f.alpha[time_length], LabelIds(n)),
              scaling_dic |-> f.scaling_dic]
     IN CHOOSE out_f \in {Of_f(f) : f \in {ForwardLoop([pc |-> "forward",
                      num_labels |-> n,
                      time_length |-> time_length,
                      potential_table |-> potential_table,
                      alpha |-> [t \in 1..time_length |->
                                   [i \in LabelIds(n) |->
                                      IF t = 1
                                      THEN potential_table[1][<<STARTING_LABEL_INDEX, i>>]
                                      ELSE Zero]],
                      scaling_dic |-> <<>>,
                      t |-> 1,
                      scaling_time |-> None,
                      scaling_coefficient |-> None,
                      overflow_occured |-> FALSE,
                      raised |-> NoError])}} : TRUE)

\* The potential table and the forward-backward result of every training
\* sequence at the parameter vector prms.
SequencePasses(prms, args) ==
    [i \in 1..Len(args.training_feature_data) |->
        (LET Of_table(table) ==
            [potential_table |-> table,
             result |-> _forward_backward(Cardinality(DOMAIN args.label_dic),
                            Len(args.training_feature_data[i]), table)]
         IN CHOOSE out_table \in {Of_table(table) : table \in {_generate_potential_table(prms,
                 Cardinality(DOMAIN args.label_dic), args.feature_set,
                 args.training_feature_data[i], FALSE)}} : TRUE)]

\* prob of the transition tr at time t (from 0), or None where the loop
\* continues without adding anything.
Prob(pass, t, tr) ==
    LET r == pass.result
        prev_y == tr[1]
        y == tr[2]
    IN IF prev_y = -1
       THEN Some(RDiv(RMul(RMul(r.alpha[t + 1][y], r.beta[t + 1][y]),
                           IF t \in DOMAIN r.scaling_dic
                           THEN Rat(r.scaling_dic[t], 1) ELSE One),
                      r.Z))
       ELSE IF t = 0
       THEN IF prev_y # STARTING_LABEL_INDEX THEN None
            ELSE Some(RDiv(RMul(pass.potential_table[1][<<STARTING_LABEL_INDEX, y>>],
                                r.beta[1][y]),
                           r.Z))
       ELSE IF prev_y = STARTING_LABEL_INDEX \/ y = STARTING_LABEL_INDEX THEN None
            ELSE Some(RDiv(RMul(RMul(r.alpha[t][prev_y],
                                     pass.potential_table[t + 1][tr]),
                                r.beta[t + 1][y]),
                           r.Z))

RECURSIVE SumProbs(_, _)
SumProbs(passes, terms) ==
    IF terms = {} THEN Zero
    ELSE LET term == CHOOSE e \in terms : TRUE
         IN RAdd(Val(Prob(passes[term[1]], term[2], term[3])),
                 SumProbs(passes, terms \ {term}))

\* expected_counts[fid] after the loops over the sequences, the time steps
\* and the (transition, feature_ids) pairs.
ExpectedCount(passes, args, fid) ==
    SumProbs(passes,
        {term \in UNION {UNION {{<<i, t, tr>> :
                                   tr \in DOMAIN args.training_feature_data[i][t + 1]}
                                : t \in 0..(Len(args.training_feature_data[i]) - 1)}
                         : i \in 1..Len(args.training_feature_data)} :
            /\ fid \in args.training_feature_data[term[1]][term[2] + 1][term[3]]
            /\ Prob(passes[term[1]], term[2], term[3]) # None})

\* _log_likelihood raises what _forward_backward raises.
LogLikelihoodRaises(prms, args) ==
    \E pass \in Range(SequencePasses(prms, args)) : pass.result.raised # NoError

\* gradients = empirical_counts - expected_counts - params/squared_sigma
Gradients(prms, args) ==
    (LET Of_passes(passes) ==
        [fid \in 0..(args.feature_set.num_features - 1) |->
            RSub(RSub(Rat(args.empirical_counts[fid], 1),
                      ExpectedCount(passes, args, fid)),
                 RDiv(Rat(prms[fid + 1], 1), args.squared_sigma))]
     IN CHOOSE out_passes \in {Of_passes(passes) : passes \in {SequencePasses(prms, args)}} : TRUE)

\* The array that GRADIENT holds.
GradientArray(gradient) == Gradients(gradient.params, gradient.args)

\* array * -1
Negated(array) == [fid \in DOMAIN array |-> RNeg(array[fid])]

----------------------------------------------------------------------------
(* Specification SpecObjective: one or two calls of fmin_l_bfgs_b in one   *)
(* process, each for its own LinearChainCRF instance, and their calls of   *)
(* _log_likelihood, _gradient and _callback in any order.                  *)

MaxObjectiveLen == 1 \* longest training sequence of a run
MaxEvaluations == 2  \* most evaluations of _log_likelihood by one run
MaxRuns == 2         \* most calls of fmin_l_bfgs_b in progress
MaxObjectiveWeight == 1  \* the runs evaluate at weights 0..MaxObjectiveWeight

\* The points at which a run evaluates: x0 = zeros and the other vectors
\* with the same weight for every feature.
Points(num_features) ==
    {[i \in 1..num_features |-> w] : w \in 0..MaxObjectiveWeight}

\* The instance variables are those of the instance of the first run.
InitObjective ==
    \E d \in DataLists(CRFNames, MaxObjectiveLen) :
      \E fs \in {scan(NewFeatureSet(CRFNames), <<d>>)} :
      \E others \in UNION {[1..k -> DataLists(CRFNames, MaxObjectiveLen)]
                           : k \in 0..(MaxRuns - 1)} :
        /\ training_data = Some(<<d>>)
        /\ feature_set = Some(fs)
        /\ label_dic = Some(fs.label_dic)
        /\ label_array = Some(fs.label_array)
        /\ num_labels = Some(Len(fs.label_array))
        /\ params = None
        /\ params_from = "none"
        /\ model_file = None
        /\ scanned = <<>>
        /\ fb = NoFrame
        /\ call = NoCall
        /\ globals = InitialGlobals
        /\ runs = <<NewRun(OptimizerArgs(<<d>>, fs))>>
                  \o [k \in 1..Len(others) |->
                        NewRun(OptimizerArgs(<<others[k]>>,
                            scan(NewFeatureSet(CRFNames), <<others[k]>>)))]

\* Run r calls func(prms, *args).  The printed line carries ITERATION_NUM
\* and SUB_ITERATION_NUM; the likelihood itself is not modelled.
LogLikelihood(r, prms) ==
    /\ runs[r].evaluations < MaxEvaluations
    /\ IF LogLikelihoodRaises(prms, runs[r].args)
       THEN /\ call' = [op |-> "_log_likelihood", run |-> r, params |-> prms,
                        raised |-> "BaseException", value |-> None]
            /\ UNCHANGED <<globals, runs>>
       ELSE /\ globals' = Evaluated(globals, prms, runs[r].args)
            /\ runs' = [runs EXCEPT ![r].evaluated = Some(prms),
                                    ![r].evaluations = @ + 1]
            /\ call' = [op |-> "_log_likelihood", run |-> r, params |-> prms,
                        raised |-> NoError,
                        value |-> Some(<<globals.ITERATION_NUM,
                                         globals.SUB_ITERATION_NUM>>)]
    /\ UNCHANGED <<Attributes, model_file, params_from, scanned, fb>>

\* Run r calls fprime(prms, *args): GRADIENT * -1.
Gradient(r, prms) ==
    /\ call' = IF globals.GRADIENT = None
               THEN [op |-> "_gradient", run |-> r, params |-> prms,
                     raised |-> "TypeError", value |-> None]
               ELSE [op |-> "_gradient", run |-> r, params |-> prms,
                     raised |-> NoError,
                     value |-> Some(Negated(GradientArray(Val(globals.GRADIENT))))]
    /\ UNCHANGED <<Attributes, model_file, params_from, scanned, fb, globals, runs>>

\* Run r ends an iteration: callback(xk).
Callback(r) ==
    /\ runs[r].evaluated # None
    /\ runs[r].iterations < MaxIterations
    /\ globals' = _callback(globals)
    /\ runs' = [runs EXCEPT ![r].iterations = @ + 1]
    /\ call' = [op |-> "_callback", run |-> r, raised |-> NoError, value |-> None]
    /\ UNCHANGED <<Attributes, model_file, params_from, scanned, fb>>

NextObjective ==
    \E r \in 1..Len(runs) :
        \/ \E prms \in Points(runs[r].args.feature_set.num_features) :
               LogLikelihood(r, prms)
        \/ \E prms \in Points(runs[r].args.feature_set.num_features) :
               Gradient(r, prms)
        \/ Callback(r)

SpecObjective == InitObjective /\ [][NextObjective]_vars

\* The negated gradient of the regularised log-likelihood of the run of
\* the latest call, at the vector the call was given.
OwnNegatedGradient == Negated(Gradients(call.params, runs[call.run].args))

\* C25: within one training run, whatever the order of the calls,
\* _gradient(p) returns the negated gradient evaluated at p, also when the
\* latest _log_likelihood was made at another vector or none was made yet.
C25_GradientIsOfItsArgument ==
    (call.op = "_gradient" /\ Len(runs) = 1) =>
        /\ call.raised = NoError
        /\ call.value = Some(OwnNegatedGradient)

\* C26: when the evaluations of two trainings are interleaved, a _gradient
\* call that follows its own run's evaluation at the same vector returns
\* the gradient of its own run.
C26_RunsShareNothing ==
    (call.op = "_gradient" /\ runs[call.run].evaluated = Some(call.params)) =>
        /\ call.raised = NoError
        /\ call.value = Some(OwnNegatedGradient)

====
